---- MODULE Spec2Model ----
(***************************************************************************)
(* Model of the SLSah utilities: the schema deep merge and schema builder  *)
(* of generate_schema_from_api.py and the YAML section editor of           *)
(* lib/config_manager.py (duplicated in sls_manager.py).                   *)
(***************************************************************************)
EXTENDS Integers, Sequences, FiniteSets, TLC

VARIABLES
    \* --- deep_merge (generate_schema_from_api.py:41-49) ---
    source,         \* the dict passed as source
    destination,    \* the dict passed as destination, mutated in place
    destination0,   \* destination as it was before the first call
    afterFirst,     \* destination as the first call left it
    order,          \* iteration order of the source dicts' items
    outcome,        \* "none", "returned" or "raised" for the last call
    calls,          \* number of deep_merge calls made so far
    \* --- the config file (lib/config_manager.py, sls_manager.py) ---
    file,           \* config.yaml: whether it exists, and its text
    before,         \* the file as it was before the last write_section
    section_key,    \* arguments of the last write_section call
    new_data,
    wrote,          \* TRUE once write_section has run
    \* --- ConfigManager's add/remove operations ---
    apps,           \* the app ids added and not removed since
    fakes,          \* the FakeAppIds mapping built by the calls
    ops,            \* number of add/remove calls made
    failed,         \* TRUE when the last call raised
    game_data,      \* data, the decoded response of GetSchemaForGame
    language,       \* the language the schema is built for
    new_schema,     \* the tree the builder made of data
    built,          \* TRUE once the builder has run
    schema_file,    \* UserGameStatsSchema_<app_id>.bin: absent, or its bytes
    stats_file,     \* TRUE when UserGameStats_<steam_id>_<app_id>.bin exists
    summary,        \* the counters of the run
    action,         \* what the last get_game_schema call did with the schema file
    runs,           \* number of get_game_schema calls made
    \* --- what a run of repeated get_game_schema calls is observed by ---
    last_data,      \* the response the last call got
    before_file,    \* the schema file as it was before the last call
    chosen,         \* the action the last call settled on (lines 107-131)
    twice,          \* TRUE when the last two calls updated on one response
    \* --- a write of a file, step by step ---
    target,         \* "none", the file that is open for writing, or "closed"
    pending,        \* what is still to be written to it
    old_content,    \* the file as it was before it was opened
    new_content,    \* the file as the finished write leaves it
    crashed,        \* TRUE once the write was interrupted
    \* --- the app details cache (shared_utils.py, sls_manager.main) ---
    cache_file,     \* appinfo_cache.json: absent, or its text
    cache_file0,    \* the cache file as main found it
    cache,          \* the dict main holds
    returned,       \* what read_cache returned, once it was called
    cache_modified, \* the flag of main
    phase,          \* "start", "menu" or "exit"
    \* --- parse_libraryfolders_vdf ---
    manifest,       \* libraryfolders.vdf: absent, unreadable, or the tree vdf.load gives
    app_ids,        \* the list the function returned
    parsed,         \* TRUE once the function has run
    \* --- retry_with_backoff ---
    max_retries,    \* the parameters of the decorator
    base_delay,
    max_delay,
    backoff_factor,
    retries,        \* the counter of the wrapper
    wait_time,      \* the last time slept, 0 before any sleep
    last_error,     \* the exception the last failed call of the wrapped function raised
    status,         \* "calling", "returned" or "raised"
    reply,          \* what the last call of the wrapped function met
    attempts,       \* number of calls of the wrapped function made
    \* --- sync_achievements (sync_goldberg_to_steam.py) ---
    goldberg_ach_file, \* achiev.ini of the app: absent, or its options
    steam_bin_file,    \* UserGameStats_<steam_id>_<app_id>.bin: absent, or its bytes
    steam_bin_before,  \* the stats file as it was before the last sync
    sync_time,         \* int(time.time()) of the last sync
    rewrote,           \* TRUE when the last sync wrote the stats file
    synced,            \* number of sync_achievements calls made
    \* --- a batch run over the apps of a list (generate_schema_from_api.py) ---
    handler,        \* "slssteam_list" or "steam_library": which menu entry runs
    run_mode,       \* what get_batch_mode returned for the run
    \* --- the commands of sls_manager.py that edit the config file ---
    command,          \* "menu", or the handler that is running
    step,             \* where the handler is: "backup", "apps", "fakes", "done"
    backed_up,        \* what backup_config returned in this command, "none" before
    config_writes,    \* write_yaml_section calls of this command
    chosen_ids,       \* the app ids the command adds or removes
    current_app_ids,  \* AdditionalApps as the command read it
    to_ask,           \* the added apps the online fix is still to be offered for
    reported,         \* "none", "success" or "failure": what the command printed
    commands_run      \* number of commands started

mergeVars == <<source, destination, destination0, afterFirst, order, outcome, calls>>
writeVars == <<file, before, section_key, new_data, wrote>>
configVars == <<apps, fakes, ops, failed>>
buildVars == <<game_data, language, new_schema, built>>
schemaVars == <<schema_file, stats_file, summary, action, runs>>
rerunVars == <<last_data, before_file, chosen, twice>>
crashVars == <<target, pending, old_content, new_content, crashed>>
cacheVars == <<cache_file, cache_file0, cache, returned, cache_modified, phase>>
manifestVars == <<manifest, app_ids, parsed>>
retryVars == <<max_retries, base_delay, max_delay, backoff_factor,
               retries, wait_time, last_error, status, reply, attempts>>
syncVars == <<goldberg_ach_file, steam_bin_file, steam_bin_before, sync_time, rewrote, synced>>
batchVars == <<handler, run_mode>>
managerVars == <<command, step, backed_up, config_writes, chosen_ids, current_app_ids, to_ask, reported, commands_run>>

vars == <<source, destination, destination0, afterFirst, order, outcome, calls,
          file, before, section_key, new_data, wrote, apps, fakes, ops, failed,
          game_data, language, new_schema, built,
          schema_file, stats_file, summary, action, runs,
          last_data, before_file, chosen, twice,
          target, pending, old_content, new_content, crashed,
          cache_file, cache_file0, cache, returned, cache_modified, phase,
          manifest, app_ids, parsed,
          max_retries, base_delay, max_delay, backoff_factor,
          retries, wait_time, last_error, status, reply, attempts,
          goldberg_ach_file, steam_bin_file, steam_bin_before, sync_time, rewrote, synced,
          handler, run_mode,
          command, step, backed_up, config_writes, chosen_ids, current_app_ids, to_ask, reported, commands_run>>

-----------------------------------------------------------------------------
(* Generic helpers *)

Range(f) == {f[i] : i \in DOMAIN f}

\* d[key] = value on a Python dict
Put(f, key, value) == [k \in DOMAIN f \cup {key} |-> IF k = key THEN value ELSE f[k]]

RECURSIVE SetToSeq(_)
SetToSeq(S) == IF S = {} THEN <<>>
               ELSE LET x == CHOOSE y \in S : TRUE IN <<x>> \o SetToSeq(S \ {x})

Perms(S) == {p \in [1..Cardinality(S) -> S] : Range(p) = S}

RECURSIVE Concat(_)
Concat(ss) == IF ss = <<>> THEN <<>> ELSE Head(ss) \o Concat(Tail(ss))

Min(S) == CHOOSE x \in S : \A y \in S : x <= y
Max(S) == CHOOSE x \in S : \A y \in S : x >= y

\* `value` bound to a name once, as an assignment binds it
With(value, Body1(_)) == CHOOSE r \in {Body1(v) : v \in {value}} : TRUE

-----------------------------------------------------------------------------
(* Nested trees: a value is a dict (kind "map") or a scalar (kind "int" or *)
(* "str").                                                                 *)

IntLeaf(v) == [kind |-> "int", val |-> v]
StrLeaf(v) == [kind |-> "str", val |-> v]
Dict(f) == [kind |-> "map", kids |-> f]
NoItems == [k \in {} |-> 0]
EmptyDict == Dict(NoItems)

\* isinstance(value, dict)
IsDict(t) == t.kind = "map"

\* the order in which `for key, value in source.items()` visits the keys
ItemOrder(src, ord) ==
    SelectSeq(ord, LAMBDA k : k \in DOMAIN src.kids)
        \o SetToSeq(DOMAIN src.kids \ Range(ord))

\* destination[key] = {} in place of setdefault: an existing dict is dropped
SetDefaultReset(dest, key) == Dict(Put(dest.kids, key, EmptyDict))

\* destination.setdefault(key, {}): insert {} only when the key is absent
SetDefault(dest, key) ==
    IF key \in DOMAIN dest.kids THEN dest ELSE Dict(Put(dest.kids, key, EmptyDict))

RECURSIVE deep_merge(_, _, _)

\* One pass of the loop of deep_merge, for the item `key` of source: what
\* the pass leaves at destination[key] and whether an exception escaped.
MergeItem(src, dest, key, ord) ==
    IF IsDict(src.kids[key])
    THEN deep_merge(src.kids[key], SetDefault(dest, key).kids[key], ord)
    ELSE [dest |-> src.kids[key], raised |-> FALSE]

\* The loop of deep_merge over the items of source in the order `keys`.  A
\* pass touches destination[key] only, so the passes are worked out one by
\* one and the loop stops behind the first that raises.  The result is the
\* destination as the loop leaves it and whether an exception escaped.
MergeItems(src, dest, keys, ord) ==
    With([i \in 1..Len(keys) |-> MergeItem(src, dest, keys[i], ord)] \o <<>>,
         LAMBDA passes :
            LET raising == {i \in 1..Len(keys) : passes[i].raised}
                last == IF raising = {} THEN Len(keys) ELSE Min(raising)
                done == {keys[i] : i \in 1..last}
                Pass(k) == CHOOSE i \in 1..last : keys[i] = k
            IN [dest |-> Dict([k \in DOMAIN dest.kids \cup done |->
                                  IF k \in done THEN passes[Pass(k)].dest
                                  ELSE dest.kids[k]]),
                raised |-> raising # {}])

\* deep_merge(source, destination).  A destination that is a scalar supports
\* neither setdefault nor item assignment: the first item of source raises
\* (AttributeError or TypeError); an empty source never touches it.
deep_merge(src, dest, ord) ==
    IF IsDict(dest)
    THEN With(ItemOrder(src, ord), LAMBDA keys : MergeItems(src, dest, keys, ord))
    ELSE [dest |-> dest, raised |-> DOMAIN src.kids # {}]

\* key paths of a tree
RECURSIVE Paths(_)
Paths(t) ==
    IF ~IsDict(t) THEN {}
    ELSE UNION {{<<k>>} \cup {<<k>> \o p : p \in Paths(t.kids[k])} : k \in DOMAIN t.kids}

RECURSIVE ValueAt(_, _)
ValueAt(t, p) == IF p = <<>> THEN t ELSE ValueAt(t.kids[Head(p)], Tail(p))

Prefix(p, n) == SubSeq(p, 1, n)

-----------------------------------------------------------------------------
(* The binary key-value format of the schema file.  The file is held as    *)
(* the sequence of its tagged entries: an entry stands for its type byte,  *)
(* its null-terminated key and the bytes of its value, and `whole` is      *)
(* FALSE for an entry whose bytes are cut short.                           *)

\* the four bytes of a 32-bit signed integer, the low byte first
Int32Bytes(v) ==
    <<v % 256, (v \div 256) % 256, (v \div 65536) % 256, (v \div 16777216) % 256>>

\* the 32-bit signed integer that four bytes hold
Int32Value(b) ==
    b[1] + 256 * b[2] + 65536 * b[3]
         + 16777216 * (IF b[4] >= 128 THEN b[4] - 256 ELSE b[4])

\* the value bytes of an entry that holds no integer
NoInt == <<0, 0, 0, 0>>

\* byte 0x00 and the key: a nested map follows
MapEntry(key) == [type |-> 0, key |-> key, str |-> "", int |-> NoInt, whole |-> TRUE]

\* byte 0x01, the key and the null-terminated value
StringEntry(key, v) == [type |-> 1, key |-> key, str |-> v, int |-> NoInt, whole |-> TRUE]

\* byte 0x02, the key and the four bytes of the value
Int32Entry(key, v) ==
    [type |-> 2, key |-> key, str |-> "", int |-> Int32Bytes(v), whole |-> TRUE]

\* a standalone byte 0x08
EndEntry == [type |-> 8, key |-> "", str |-> "", int |-> NoInt, whole |-> TRUE]

RECURSIVE DumpItems(_)

\* the entries of one item of a map
DumpItem(key, value) ==
    IF value.kind = "map" THEN <<MapEntry(key)>> \o DumpItems(value.kids) \o <<EndEntry>>
    ELSE IF value.kind = "str" THEN <<StringEntry(key, value.val)>>
    ELSE <<Int32Entry(key, value.val)>>

\* the entries of the items of a map, one item after the other
DumpItems(kids) ==
    With(SetToSeq(DOMAIN kids), LAMBDA keys :
        Concat([i \in 1..Len(keys) |-> DumpItem(keys[i], kids[keys[i]])] \o <<>>))

\* vdf.binary_dumps(tree): the items of the root and the 0x08 that closes it
binary_dumps(tree) == DumpItems(tree.kids) \o <<EndEntry>>

\* how an entry changes the number of open maps
Nesting(entry) == IF entry.type = 0 THEN 1 ELSE IF entry.type = 8 THEN -1 ELSE 0

\* for the entries lo..hi: the number of maps open before each of them,
\* counted from lo, and the number they leave open
RECURSIVE OpenMaps(_, _, _)
OpenMaps(bytes, lo, hi) ==
    IF lo > hi THEN [net |-> 0, before |-> <<>>]
    ELSE IF lo = hi THEN [net |-> Nesting(bytes[lo]), before |-> <<0>>]
    ELSE With(OpenMaps(bytes, lo, (lo + hi) \div 2), LAMBDA left :
         With(OpenMaps(bytes, ((lo + hi) \div 2) + 1, hi), LAMBDA right :
            [net |-> left.net + right.net,
             before |-> left.before
                            \o [i \in 1..Len(right.before) |-> left.net + right.before[i]]]))

\* the items of the map whose entries stand between lo and hi, `depth` maps
\* being open there; a key that comes again replaces the earlier item
RECURSIVE LoadItems(_, _, _, _, _)
LoadItems(bytes, open, lo, hi, depth) ==
    LET starts == {i \in (lo + 1)..(hi - 1) : open[i] = depth /\ bytes[i].type # 8}
        ends == {j \in (lo + 1)..hi : open[j] = depth + 1 /\ bytes[j].type = 8}
        Last(k) == Max({i \in starts : bytes[i].key = k})
        EndOf(i) == Min({j \in ends : j > i})
        Value(i) == IF bytes[i].type = 0
                    THEN Dict(LoadItems(bytes, open, i, EndOf(i), depth + 1))
                    ELSE IF bytes[i].type = 1 THEN StrLeaf(bytes[i].str)
                    ELSE IntLeaf(Int32Value(bytes[i].int))
    IN [k \in {bytes[i].key : i \in starts} |-> Value(Last(k))]

\* the outcome of a decode that raises
MalformedBinary == [ok |-> FALSE, tree |-> EmptyDict]

\* vdf.binary_load(f): the tree up to the 0x08 that closes the root; an
\* unknown type byte, an entry cut short and the end of the file before the
\* closing 0x08 raise
binary_load(bytes) ==
    With(OpenMaps(bytes, 1, Len(bytes)).before, LAMBDA open :
        LET closing == {i \in 1..Len(bytes) : open[i] = 0 /\ bytes[i].type = 8}
        IN IF closing = {} THEN MalformedBinary
           ELSE IF \E i \in 1..Min(closing) :
                       ~bytes[i].whole \/ bytes[i].type \notin {0, 1, 2, 8}
           THEN MalformedBinary
           ELSE [ok |-> TRUE,
                 tree |-> Dict(LoadItems(bytes, open, 0, Min(closing), 0))])

-----------------------------------------------------------------------------
(* The schema builder of get_game_schema and the schema file               *)

\* get_game_schema is always called with str(app_id)
AppId == "480"

\* the decoded JSON of a response that holds a game
Game(hasStats, achievements) ==
    [kind |-> "game", gameName |-> "Game", gameVersion |-> "1",
     hasStats |-> hasStats, achievements |-> achievements]

\* a response without data['game'], and one that raise_for_status rejects
NoGame == [kind |-> "no_game", gameName |-> "", gameVersion |-> "",
           hasStats |-> FALSE, achievements |-> <<>>]
HttpError == [kind |-> "http_error", gameName |-> "", gameVersion |-> "",
              hasStats |-> FALSE, achievements |-> <<>>]

\* ach['icon'].split('/')[-1] of a URL held as its parts between slashes
SplitLast(parts) == parts[Len(parts)]

\* a token that names the bit and not the block
TokenByBit(block_id, bit_id, suffix) ==
    "NEW_ACHIEVEMENT_" \o ToString(bit_id) \o "_" \o suffix

\* f"NEW_ACHIEVEMENT_{block_id}_{bit_id}_{suffix}"
Token(block_id, bit_id, suffix) ==
    "NEW_ACHIEVEMENT_" \o ToString(block_id) \o "_" \o ToString(bit_id) \o "_" \o suffix

\* the block of record i counted from record 1: record 31 opens block 2
BlockIdOffByOne(i) == ((i + 1) \div 32) + 1

\* block_id = (i // 32) + 1
BlockId(i) == (i \div 32) + 1

\* the bit of record i when a block is taken to hold 33 records
BitIdOfThirtyThree(i) == i % 33

\* bit_id = i % 32
BitId(i) == i % 32

\* {"type": "4", "id": str(block_id), "bits": {}}
NewBlock(block_id) ==
    Dict(("type" :> StrLeaf("4")) @@ ("id" :> StrLeaf(ToString(block_id)))
             @@ ("bits" :> EmptyDict))

\* the "bit" field written as the text of the index
BitFieldAsString(bit_id) == StrLeaf(ToString(bit_id))

\* "bit": bit_id
BitField(bit_id) == IntLeaf(bit_id)

\* the entry of one achievement under "bits"
BitEntry(ach, block_id, bit_id, lang) ==
    Dict(("name" :> StrLeaf(ach.name)) @@ ("bit" :> BitField(bit_id))
         @@ ("display" :>
               Dict(("name" :> Dict(Put("token" :> StrLeaf(Token(block_id, bit_id, "NAME")),
                                        lang, StrLeaf(ach.displayName))))
                    @@ ("desc" :> Dict(Put("token" :> StrLeaf(Token(block_id, bit_id, "DESC")),
                                           lang,
                                           StrLeaf(IF ach.hasDescription
                                                   THEN ach.description ELSE ""))))
                    @@ ("hidden" :> StrLeaf(ToString(ach.hidden)))
                    @@ ("icon" :> StrLeaf(SplitLast(ach.icon)))
                    @@ ("icon_gray" :> StrLeaf(SplitLast(ach.icongray))))))

\* one pass of the loop over enumerate(achievements): the block is made when
\* its id is not yet a key of stats, then the bit entry is assigned
AddAchievement(stats, i, ach, lang) ==
    LET key == ToString(BlockId(i))
        stats1 == IF key \notin DOMAIN stats
                  THEN Put(stats, key, NewBlock(BlockId(i))) ELSE stats
        bits == Put(stats1[key].kids["bits"].kids, ToString(BitId(i)),
                    BitEntry(ach, BlockId(i), BitId(i), lang))
    IN Put(stats1, key, Dict(Put(stats1[key].kids, "bits", Dict(bits))))

\* stats after the first n records
RECURSIVE StatsOf(_, _, _)
StatsOf(achievements, n, lang) ==
    IF n = 0 THEN NoItems
    ELSE With(StatsOf(achievements, n - 1, lang),
              LAMBDA stats : AddAchievement(stats, n - 1, achievements[n], lang))

\* new_schema as lines 80-101 build it
BuildSchema(app_id, response, lang) ==
    Dict(app_id :>
           Dict(("gamename" :> StrLeaf(response.gameName))
                @@ ("version" :> StrLeaf(response.gameVersion))
                @@ ("stats" :>
                      Dict(IF response.hasStats
                           THEN StatsOf(response.achievements,
                                        Len(response.achievements), lang)
                           ELSE NoItems))))

\* get_achievement_names_from_schema(schema, app_id)
get_achievement_names_from_schema(schema, app_id) ==
    IF app_id \notin DOMAIN schema.kids
           \/ "stats" \notin DOMAIN schema.kids[app_id].kids
    THEN {}
    ELSE LET stats == schema.kids[app_id].kids["stats"].kids
         IN UNION {{stats[b].kids["bits"].kids[k].kids["name"].val :
                        k \in DOMAIN stats[b].kids["bits"].kids} :
                   b \in {c \in DOMAIN stats : "bits" \in DOMAIN stats[c].kids}}

\* the schema file: absent, or holding the bytes vdf.binary_dumps made of a
\* tree
NoSchemaFile == [exists |-> FALSE, bytes |-> <<>>]
SchemaFileOf(tree) == [exists |-> TRUE, bytes |-> binary_dumps(tree)]

\* summary = {'total': 0, 'overwritten': 0, 'updated': 0, 'skipped': 0, 'errors': 0}
NewSummary == [total |-> 0, updated |-> 0, overwritten |-> 0, skipped |-> 0, errors |-> 0]

-----------------------------------------------------------------------------
(* Text: a string is a sequence of one-character strings.                  *)


\* ' ' * n
Spaces(n) == [i \in 1..n |-> " "]

\* str.isspace for the characters of the model
IsSpace(c) == c \in {" ", "\t", "\n"}

\* number of leading characters of s that are in cs
RECURSIVE LeadCount(_, _)
LeadCount(s, cs) ==
    IF s = <<>> \/ Head(s) \notin cs THEN 0 ELSE 1 + LeadCount(Tail(s), cs)

RECURSIVE TrailCount(_, _)
TrailCount(s, cs) ==
    IF s = <<>> \/ s[Len(s)] \notin cs THEN 0
    ELSE 1 + TrailCount(SubSeq(s, 1, Len(s) - 1), cs)

Whitespace == {" ", "\t", "\n"}

\* s.lstrip(' ')
LStripSpaces(s) == SubSeq(s, LeadCount(s, {" "}) + 1, Len(s))

\* s.strip()
Strip(s) ==
    LET l == LeadCount(s, Whitespace)
    IN IF l = Len(s) THEN <<>>
       ELSE SubSeq(s, l + 1, Len(s) - TrailCount(s, Whitespace))

\* s.startswith(prefix)
StartsWith(s, prefix) ==
    Len(s) >= Len(prefix) /\ SubSeq(s, 1, Len(prefix)) = prefix

\* s.endswith('\n')
EndsWithNewline(s) == s # <<>> /\ s[Len(s)] = "\n"

\* a line without its newline
Body(line) == IF EndsWithNewline(line) THEN SubSeq(line, 1, Len(line) - 1) ELSE line

\* s.find(sub): zero-based index of the first occurrence, -1 when there is none
Find(s, sub) ==
    LET hits == {i \in 0..(Len(s) - Len(sub)) : SubSeq(s, i + 1, i + Len(sub)) = sub}
    IN IF hits = {} THEN -1 ELSE Min(hits)

DigitChar == <<"0", "1", "2", "3", "4", "5", "6", "7", "8", "9">>

\* str(n) of a non-negative int
RECURSIVE Str(_)
Str(n) == IF n < 10 THEN <<DigitChar[n + 1]>>
          ELSE Str(n \div 10) \o <<DigitChar[(n % 10) + 1]>>

\* f.readlines(): the text cut after every newline
ReadLines(text) ==
    LET n == Len(text)
        ends == {i \in 1..n : text[i] = "\n" \/ i = n}
        EndOf(k) == CHOOSE e \in ends : Cardinality({x \in ends : x < e}) = k - 1
    IN [k \in 1..Cardinality(ends) |->
            SubSeq(text, IF k = 1 THEN 1 ELSE EndOf(k - 1) + 1, EndOf(k))]

\* sorted(...) of a set of ints
RECURSIVE Sorted(_)
Sorted(S) == IF S = {} THEN <<>> ELSE <<Min(S)>> \o Sorted(S \ {Min(S)})

-----------------------------------------------------------------------------
(* write_section / write_yaml_section *)

NoFile == [exists |-> FALSE, text |-> <<>>]
FileOf(text) == [exists |-> TRUE, text |-> text]

ListValue(items) == [type |-> "list", items |-> items]
DictValue(items) == [type |-> "dict", items |-> items]

AdditionalApps == <<"A", "d", "d", "i", "t", "i", "o", "n", "a", "l", "A", "p", "p", "s">>
FakeAppIds == <<"F", "a", "k", "e", "A", "p", "p", "I", "d", "s">>

\* f"{section_key}:"
Heading(key) == key \o <<":">>

\* the lines write_section starts from: the file's lines, or the bare heading
\* when the file is missing or empty
StartLines(f, key) ==
    LET lines == IF f.exists THEN ReadLines(f.text) ELSE <<>>
    IN IF lines = <<>> THEN <<Heading(key) \o <<"\n">>>> ELSE lines

\* zero-based index of the first line whose stripped text starts with "key:",
\* or -1
FindStart(lines, key) ==
    LET hits == {i \in 0..(Len(lines) - 1) : StartsWith(Strip(lines[i + 1]), Heading(key))}
    IN IF hits = {} THEN -1 ELSE Min(hits)

\* "Add section if it doesn't exist": the lines after the heading was appended
AppendSection(lines, key) ==
    (IF ~EndsWithNewline(lines[Len(lines)]) THEN Append(lines, <<"\n">>) ELSE lines)
        \o <<(<<"\n">> \o Heading(key) \o <<"\n">>)>>

\* start_index after a section was appended
AppendedStart(lines) == Len(lines) - 2

\* the rendering with two spaces per level: "  " * (indent_level + 1)
FormatNewDataPerLevel(data, indent_level) ==
    IF data.type = "list"
    THEN LET items == Sorted(Range(data.items))
         IN [i \in 1..Len(items) |->
                Spaces(2 * (indent_level + 1)) \o <<"-", " ">> \o Str(items[i]) \o <<"\n">>]
    ELSE LET ks == Sorted(DOMAIN data.items)
         IN [i \in 1..Len(ks) |->
                Spaces(2 * (indent_level + 1)) \o Str(ks[i]) \o <<":", " ">>
                    \o Str(data.items[ks[i]]) \o <<"\n">>]

\* "Format new data"
FormatNewData(data, indent_level) ==
    IF data.type = "list"
    THEN LET items == Sorted(Range(data.items))
         IN [i \in 1..Len(items) |->
                Spaces(indent_level + 2) \o <<"-", " ">> \o Str(items[i]) \o <<"\n">>]
    ELSE LET ks == Sorted(DOMAIN data.items)
         IN [i \in 1..Len(ks) |->
                Spaces(indent_level + 2) \o Str(ks[i]) \o <<":", " ">>
                    \o Str(data.items[ks[i]]) \o <<"\n">>]

\* is_section_item with >= in place of >: a line at the heading's own indent
\* counts as part of the section
IsSectionItemAtIndent(line, indent_level) ==
    /\ Strip(line) # <<>>
    /\ (Len(line) - Len(LStripSpaces(line))) >= indent_level

\* is_section_item
IsSectionItem(line, indent_level) ==
    /\ Strip(line) # <<>>
    /\ (Len(line) - Len(LStripSpaces(line))) > indent_level

\* "Find section end": zero-based index of the first line after the section
RECURSIVE FindEnd(_, _, _)
FindEnd(lines, end_index, indent_level) ==
    IF end_index < Len(lines) /\ IsSectionItem(lines[end_index + 1], indent_level)
    THEN FindEnd(lines, end_index + 1, indent_level)
    ELSE end_index

\* final_lines = lines[:start_index + 1] + new_data_lines + lines[end_index:]
Splice(lines, start_index, new_data_lines, end_index) ==
    SubSeq(lines, 1, start_index + 1) \o new_data_lines
        \o SubSeq(lines, end_index + 1, Len(lines))

\* the lines and indices write_section works with
SectionLines(f, key) ==
    LET lines0 == StartLines(f, key)
        found == FindStart(lines0, key)
        lines == IF found = -1 THEN AppendSection(lines0, key) ELSE lines0
        start_index == IF found = -1 THEN AppendedStart(lines) ELSE found
        indent_level == Find(lines[start_index + 1], key)
    IN [lines |-> lines, found |-> found, start_index |-> start_index,
        indent_level |-> indent_level,
        end_index |-> FindEnd(lines, start_index + 1, indent_level)]

\* write_section(section_key, new_data): the file it leaves on disk
write_section(f, key, data) ==
    LET s == SectionLines(f, key)
    IN FileOf(Concat(Splice(s.lines, s.start_index,
                            FormatNewData(data, s.indent_level), s.end_index)))

-----------------------------------------------------------------------------
(* read_section: yaml.safe_load on the block-style documents the editor    *)
(* reads and writes (comments, blank lines, "key:" headings, "- n" items   *)
(* and "k: v" pairs), then the lookup of the section.                      *)

NoneValue == [type |-> "none", items |-> <<>>]

Digits == {"0", "1", "2", "3", "4", "5", "6", "7", "8", "9"}

IsInt(s) == s # <<>> /\ \A i \in 1..Len(s) : s[i] \in Digits

DigitValue(c) == CHOOSE d \in 0..9 : DigitChar[d + 1] = c

\* int(s) of a digit string
RECURSIVE ParseInt(_)
ParseInt(s) == IF s = <<>> THEN 0
               ELSE 10 * ParseInt(SubSeq(s, 1, Len(s) - 1)) + DigitValue(s[Len(s)])

\* a mapping key written plainly: no blank, colon, dash or comment sign in it
IsKey(s) == s # <<>> /\ \A i \in 1..Len(s) : s[i] \notin {" ", "\t", ":", "-", "#"}

\* the token of one physical line
LineToken(line) ==
    LET body == Body(line)
        indent == LeadCount(body, {" "})
        rest == SubSeq(body, indent + 1, Len(body) - TrailCount(body, {" "}))
        colon == Find(rest, <<":", " ">>)
    IN IF Strip(body) = <<>> \/ rest[1] = "#"
       THEN [kind |-> "skip", indent |-> indent, key |-> <<>>, val |-> 0]
       ELSE IF StartsWith(rest, <<"-", " ">>) /\ IsInt(SubSeq(rest, 3, Len(rest)))
       THEN [kind |-> "item", indent |-> indent, key |-> <<>>,
             val |-> ParseInt(SubSeq(rest, 3, Len(rest)))]
       ELSE IF rest[Len(rest)] = ":" /\ IsKey(SubSeq(rest, 1, Len(rest) - 1))
       THEN [kind |-> "heading", indent |-> indent,
             key |-> SubSeq(rest, 1, Len(rest) - 1), val |-> 0]
       ELSE IF colon > 0 /\ IsKey(SubSeq(rest, 1, colon))
                /\ IsInt(SubSeq(rest, colon + 3, Len(rest)))
       THEN [kind |-> "pair", indent |-> indent, key |-> SubSeq(rest, 1, colon),
             val |-> ParseInt(SubSeq(rest, colon + 3, Len(rest)))]
       ELSE [kind |-> "bad", indent |-> indent, key |-> <<>>, val |-> 0]

\* the tokens of a text, comments and blank lines dropped
Tokens(text) ==
    LET lines == ReadLines(text)
    IN SelectSeq([i \in 1..Len(lines) |-> LineToken(lines[i])],
                 LAMBDA t : t.kind # "skip")

\* number of tokens from position i on that have the kind and the indent
RECURSIVE RunLength(_, _, _, _)
RunLength(toks, i, kind, indent) ==
    IF i <= Len(toks) /\ toks[i].kind = kind /\ toks[i].indent = indent
    THEN 1 + RunLength(toks, i + 1, kind, indent) ELSE 0

\* the dict of a run of "k: v" pairs with int keys; a repeated key keeps the
\* last value
PairsDict(toks) ==
    LET ks == {ParseInt(toks[i].key) : i \in 1..Len(toks)}
        Last(k) == CHOOSE i \in 1..Len(toks) :
                       /\ ParseInt(toks[i].key) = k
                       /\ \A j \in (i + 1)..Len(toks) : ParseInt(toks[j].key) # k
    IN [k \in ks |-> toks[Last(k)].val]

ParseError == [ok |-> FALSE, kind |-> "error", entries |-> <<>>]

ScalarValue(v) == [type |-> "scalar", items |-> v]

\* number of tokens from position i on that stand deeper than `indent`
RECURSIVE DeeperLength(_, _, _)
DeeperLength(toks, i, indent) ==
    IF i <= Len(toks) /\ toks[i].indent > indent
    THEN 1 + DeeperLength(toks, i + 1, indent) ELSE 0

\* number of tokens after token i that belong to its entry: the continuation
\* lines of the plain scalar of a "k: v" pair, or the run of items or of
\* deeper pairs under a heading
UnderLength(toks, i, indent) ==
    IF i >= Len(toks) THEN 0
    ELSE IF toks[i].kind = "pair" THEN DeeperLength(toks, i + 1, indent)
    ELSE IF toks[i + 1].kind = "item" /\ toks[i + 1].indent >= indent
    THEN RunLength(toks, i + 1, "item", toks[i + 1].indent)
    ELSE IF toks[i + 1].kind = "pair" /\ toks[i + 1].indent > indent
    THEN RunLength(toks, i + 1, "pair", toks[i + 1].indent)
    ELSE 0

\* the value of the entry of token i with the n tokens under it; NoneValue
\* with n > 0 or for a pair stands for a value PyYAML rejects
EntryValue(t, run) ==
    IF t.kind = "pair"
    THEN IF \A j \in 1..Len(run) : run[j].kind = "item"
         THEN ScalarValue(t.val) ELSE NoneValue
    ELSE IF run = <<>> THEN NoneValue
    ELSE IF run[1].kind = "item"
    THEN ListValue([j \in 1..Len(run) |-> run[j].val])
    ELSE IF \A j \in 1..Len(run) : IsInt(run[j].key)
    THEN DictValue(PairsDict(run))
    ELSE NoneValue

\* the entries of a block mapping whose keys stand at column `indent`, from
\* token i on.  A heading takes the run of items, or of deeper pairs, under
\* it.  A "k: v" pair takes the deeper lines after it as the continuation of
\* its plain scalar, which must not hold a "k: v" or "k:" itself.
RECURSIVE ParseMapping(_, _, _)
ParseMapping(toks, i, indent) ==
    IF i > Len(toks) THEN [ok |-> TRUE, kind |-> "map", entries |-> <<>>]
    ELSE IF toks[i].indent # indent \/ toks[i].kind \notin {"heading", "pair"}
    THEN ParseError
    ELSE With(UnderLength(toks, i, indent), LAMBDA n :
         With(EntryValue(toks[i], SubSeq(toks, i + 1, i + n)), LAMBDA value :
            IF (n > 0 \/ toks[i].kind = "pair") /\ value.type = "none"
            THEN ParseError
            ELSE With(ParseMapping(toks, i + n + 1, indent), LAMBDA rest :
                    IF ~rest.ok THEN ParseError
                    ELSE [ok |-> TRUE, kind |-> "map",
                          entries |-> <<[key |-> toks[i].key, value |-> value]>>
                                          \o rest.entries])))

\* the document of a sequence of tokens
ParseDocument(toks) ==
    IF toks = <<>> THEN [ok |-> TRUE, kind |-> "none", entries |-> <<>>]
    ELSE IF toks[1].kind = "item"
    THEN IF RunLength(toks, 1, "item", toks[1].indent) = Len(toks)
         THEN [ok |-> TRUE, kind |-> "list", entries |-> <<>>]
         ELSE ParseError
    ELSE ParseMapping(toks, 1, toks[1].indent)

\* yaml.safe_load(f): None for a document without content, a list for a block
\* sequence, a dict for a block mapping, ParseError for a yaml.YAMLError
safe_load(text) == With(Tokens(text), LAMBDA toks : ParseDocument(toks))

\* the lookup of a read_section that answers a parse error with the default
LookupOrDefault(config, key, default_value) ==
    LET hits == {i \in 1..Len(config.entries) : config.entries[i].key = key}
    IN IF config.ok /\ config.kind = "map" /\ hits # {}
               /\ config.entries[Max(hits)].value.type # "none"
       THEN config.entries[Max(hits)].value
       ELSE default_value

\* the lookup of read_section in the loaded document; a yaml.YAMLError is
\* caught and answered with None
Lookup(config, key, default_value) ==
    LET hits == {i \in 1..Len(config.entries) : config.entries[i].key = key}
    IN IF ~config.ok THEN NoneValue
       ELSE IF config.kind = "map" /\ hits # {}
               /\ config.entries[Max(hits)].value.type # "none"
       THEN config.entries[Max(hits)].value
       ELSE default_value

\* read_section(section_key, default_value); NoneValue is Python's None
read_section(f, key, default_value) ==
    IF ~f.exists THEN default_value
    ELSE With(safe_load(f.text), LAMBDA config : Lookup(config, key, default_value))

get_additional_apps(f) == read_section(f, AdditionalApps, ListValue(<<>>))
get_fake_app_ids(f) == read_section(f, FakeAppIds, DictValue(NoItems))

-----------------------------------------------------------------------------
(* Inputs of the merge specification *)

MaxVal == 1
Keys == {"a", "b"}
SrcVals == 1..MaxVal
DstVals == (MaxVal + 1)..(2 * MaxVal)

DictsOver(children) ==
    {Dict(f) : f \in UNION {[ks -> children] : ks \in SUBSET Keys}}

Leaves(vals) == {IntLeaf(v) : v \in vals}
Trees1(vals) == DictsOver(Leaves(vals))
Trees2(vals) == DictsOver(Leaves(vals) \cup Trees1(vals))

WriteIdle ==
    /\ file = NoFile
    /\ before = NoFile
    /\ section_key = <<>>
    /\ new_data = ListValue(<<>>)
    /\ wrote = FALSE

ConfigIdle ==
    /\ apps = {}
    /\ fakes = NoItems
    /\ ops = 0
    /\ failed = FALSE

BuildIdle ==
    /\ game_data = NoGame
    /\ language = "english"
    /\ new_schema = EmptyDict
    /\ built = FALSE

SchemaIdle ==
    /\ schema_file = NoSchemaFile
    /\ stats_file = FALSE
    /\ summary = NewSummary
    /\ action = "none"
    /\ runs = 0

RerunIdle ==
    /\ last_data = NoGame
    /\ before_file = NoSchemaFile
    /\ chosen = "none"
    /\ twice = FALSE

\* the cache file: absent, or holding a text
NoCacheFile == [exists |-> FALSE, text |-> <<>>]

CacheIdle ==
    /\ cache_file = NoCacheFile
    /\ cache_file0 = NoCacheFile
    /\ cache = NoItems
    /\ returned = [called |-> FALSE, value |-> NoItems]
    /\ cache_modified = FALSE
    /\ phase = "start"

\* the manifest file: absent, or what vdf.load makes of it
NoManifest == [exists |-> FALSE, ok |-> TRUE, tree |-> EmptyDict]

ManifestIdle ==
    /\ manifest = NoManifest
    /\ app_ids = <<>>
    /\ parsed = FALSE

ManagerIdle ==
    /\ command = "menu"
    /\ step = "none"
    /\ backed_up = "none"
    /\ config_writes = 0
    /\ chosen_ids = {}
    /\ current_app_ids = {}
    /\ to_ask = {}
    /\ reported = "none"
    /\ commands_run = 0

BatchIdle ==
    /\ handler = "none"
    /\ run_mode = "none"

\* no achiev.ini in the Goldberg saves of the app
NoGoldbergFile == [exists |-> FALSE, section |-> FALSE, options |-> NoItems]

SyncIdle ==
    /\ goldberg_ach_file = NoGoldbergFile
    /\ steam_bin_file = NoSchemaFile
    /\ steam_bin_before = NoSchemaFile
    /\ sync_time = 0
    /\ rewrote = FALSE
    /\ synced = 0

\* no call of the wrapped function made yet
NoResponse == [kind |-> "none", status_code |-> 0]

RetryIdle ==
    /\ max_retries = 0
    /\ base_delay = 1
    /\ max_delay = 1
    /\ backoff_factor = 1
    /\ retries = 0
    /\ wait_time = 0
    /\ last_error = "none"
    /\ status = "calling"
    /\ reply = NoResponse
    /\ attempts = 0

CrashIdle ==
    /\ target = "none"
    /\ pending = <<>>
    /\ old_content = NoFile
    /\ new_content = NoFile
    /\ crashed = FALSE

MergeIdle ==
    /\ source = EmptyDict
    /\ destination = EmptyDict
    /\ destination0 = EmptyDict
    /\ afterFirst = EmptyDict
    /\ order = <<>>
    /\ outcome = "none"
    /\ calls = 0

InitMerge ==
    /\ source \in Trees2(SrcVals)
    /\ destination \in Trees2(DstVals)
    /\ destination0 = destination
    /\ afterFirst = destination
    /\ order \in Perms(Keys)
    /\ outcome = "none"
    /\ calls = 0
    /\ WriteIdle
    /\ ConfigIdle
    /\ BuildIdle
    /\ SchemaIdle
    /\ RerunIdle
    /\ CrashIdle
    /\ CacheIdle
    /\ ManifestIdle
    /\ RetryIdle
    /\ SyncIdle
    /\ BatchIdle
    /\ ManagerIdle

\* merged = deep_merge(source, destination): destination is mutated in place
\* and is the object returned.
DeepMerge ==
    /\ calls = 0
    /\ LET r == deep_merge(source, destination, order)
       IN /\ destination' = r.dest
          /\ afterFirst' = r.dest
          /\ outcome' = IF r.raised THEN "raised" ELSE "returned"
    /\ calls' = 1
    /\ UNCHANGED <<source, destination0, order>>
    /\ UNCHANGED <<writeVars, configVars, buildVars, schemaVars, rerunVars, crashVars, cacheVars, manifestVars, retryVars, syncVars, batchVars, managerVars>>

\* deep_merge(source, merged) on the tree the first call returned
DeepMergeAgain ==
    /\ calls = 1
    /\ outcome = "returned"
    /\ LET r == deep_merge(source, destination, order)
       IN /\ destination' = r.dest
          /\ outcome' = IF r.raised THEN "raised" ELSE "returned"
    /\ calls' = 2
    /\ UNCHANGED <<source, destination0, afterFirst, order>>
    /\ UNCHANGED <<writeVars, configVars, buildVars, schemaVars, rerunVars, crashVars, cacheVars, manifestVars, retryVars, syncVars, batchVars, managerVars>>

NextMerge == DeepMerge \/ DeepMergeAgain

SpecMerge == InitMerge /\ [][NextMerge]_vars

-----------------------------------------------------------------------------
(* Claims about deep_merge, checked under SpecMerge *)

\* key paths of D0 that S does not have
OnlyInDestination == Paths(destination0) \ Paths(source)

\* p lies below a key path at which source holds a scalar
UnderSourceScalar(p) ==
    \E n \in 1..(Len(p) - 1) :
        /\ Prefix(p, n) \in Paths(source)
        /\ ~IsDict(ValueAt(source, Prefix(p, n)))

Kept(p) ==
    /\ p \in Paths(destination)
    /\ ValueAt(destination, p) = ValueAt(destination0, p)

\* C1: deep_merge(S, D) yields a tree for arbitrary S and D, and merging S
\* into that tree again yields the same tree.
C1_MergeIdempotent ==
    /\ calls >= 1 => outcome = "returned"
    /\ calls = 2 => destination = afterFirst

\* C2 as stated: every key path of D that S does not have is in
\* deep_merge(S, D) with the value it had in D.
C2_OnlyInDestinationKept ==
    (calls = 1 /\ outcome = "returned") => \A p \in OnlyInDestination : Kept(p)

\* C2 amended: every key path of D that S does not have, and that does not lie
\* below a key path at which S holds a scalar, is in the destination after
\* deep_merge(S, D) with the value it had in D.
C2_OnlyInDestinationKeptUnlessOverwritten ==
    calls >= 1 => \A p \in OnlyInDestination : ~UnderSourceScalar(p) => Kept(p)

\* a merge has run on inputs where D has a nested key path that S lacks under
\* a dict of S, and the path survived
C2_Witness ==
    /\ calls >= 1
    /\ \E p \in OnlyInDestination :
        /\ Len(p) = 2
        /\ Prefix(p, 1) \in Paths(source)
        /\ ~UnderSourceScalar(p)
        /\ Kept(p)

\* C7: every scalar leaf of S is in deep_merge(S, D) at the same key path with
\* S's value, whatever D held there.
C7_SourceWins ==
    calls >= 1 =>
        \A p \in Paths(source) :
            ~IsDict(ValueAt(source, p)) =>
                /\ p \in Paths(destination)
                /\ ValueAt(destination, p) = ValueAt(source, p)

\* C8: deep_merge(S, D) leaves D as it was.
C8_DestinationNotMutated ==
    calls >= 1 => destination = destination0

-----------------------------------------------------------------------------
(* Inputs of the write_section specification *)

MaxLines == 4
AppIds == {50, 100}
FakeIds == {480}

\* lines a config file is made of, without their newline
LineChoices ==
    { AdditionalApps \o <<":">>,
      <<" ", " ">> \o AdditionalApps \o <<":">>,
      FakeAppIds \o <<":">>,
      <<" ", " ", "-", " ", "5", "0">>,
      <<" ", " ", "#", " ", "c">>,
      <<" ", " ", " ">> }

\* a text of n lines; the last line ends with a newline or not
TextsOfLines(n) ==
    {Concat([i \in 1..n |-> ls[i] \o (IF i = n /\ ~nl THEN <<>> ELSE <<"\n">>)]) :
        ls \in [1..n -> LineChoices], nl \in BOOLEAN}

InitFiles == {NoFile} \cup {FileOf(t) : t \in UNION {TextsOfLines(n) : n \in 0..MaxLines}}

\* lists of no, one and two app ids: unsorted ones and duplicates included
ListValues ==
    {ListValue(l) : l \in {<<>>} \cup {<<a>> : a \in AppIds}
                            \cup {<<a, b>> : a, b \in AppIds}}
DictValues == {DictValue(d) : d \in UNION {[ks -> FakeIds] : ks \in SUBSET AppIds}}

InitWrite ==
    /\ file \in InitFiles
    /\ before = file
    /\ section_key = <<>>
    /\ new_data = ListValue(<<>>)
    /\ wrote = FALSE
    /\ MergeIdle
    /\ ConfigIdle
    /\ BuildIdle
    /\ SchemaIdle
    /\ RerunIdle
    /\ CrashIdle
    /\ CacheIdle
    /\ ManifestIdle
    /\ RetryIdle
    /\ SyncIdle
    /\ BatchIdle
    /\ ManagerIdle

\* one call write_section(key, data)
WriteSection(key, data) ==
    /\ ~wrote
    /\ file' = write_section(file, key, data)
    /\ before' = file
    /\ section_key' = key
    /\ new_data' = data
    /\ wrote' = TRUE
    /\ UNCHANGED <<mergeVars, configVars, buildVars, schemaVars, rerunVars, crashVars, cacheVars, manifestVars, retryVars, syncVars, batchVars, managerVars>>

NextWrite ==
    \/ \E data \in ListValues : WriteSection(AdditionalApps, data)
    \/ \E data \in DictValues : WriteSection(FakeAppIds, data)

SpecWrite == InitWrite /\ [][NextWrite]_vars

-----------------------------------------------------------------------------
(* Claims about write_section, checked under SpecWrite *)

\* the physical lines of the file before and after the call
OldLines == IF before.exists THEN ReadLines(before.text) ELSE <<>>
NewLines == ReadLines(file.text)

\* lines whose trimmed content starts with "key:" (1-based)
HeadingLines(lines, key) ==
    {i \in 1..Len(lines) : StartsWith(Strip(lines[i]), key \o <<":">>)}

\* leading-whitespace count of a line
LeadingWhitespace(line) == LeadCount(Body(line), {" ", "\t"})

\* the first line (1-based) after the section's extent: the lines after the
\* heading whose leading-whitespace count exceeds the heading's
RECURSIVE ExtentEnd(_, _, _)
ExtentEnd(lines, i, indent) ==
    IF i <= Len(lines) /\ LeadingWhitespace(lines[i]) > indent
    THEN ExtentEnd(lines, i + 1, indent) ELSE i

SectionEnd(lines, heading) ==
    ExtentEnd(lines, heading + 1, LeadingWhitespace(lines[heading]))

\* the last n lines of a sequence
LastLines(lines, n) == SubSeq(lines, Len(lines) - n + 1, Len(lines))

\* the lines rendered for a list value: its distinct elements, ascending
ItemBodies(data) ==
    LET items == Sorted(Range(data.items))
    IN [i \in 1..Len(items) |-> <<"-", " ">> \o Str(items[i])]

\* the lines i+1.. of the file are exactly the item lines of data, in order
ItemsFollow(lines, i, data) ==
    LET items == ItemBodies(data)
    IN /\ Len(lines) >= i + Len(items)
       /\ \A j \in 1..Len(items) : Strip(lines[i + j]) = items[j]

\* old and new are the same outside the section under the heading
SameOutsideSection(old, new, heading) ==
    LET after == Len(old) - SectionEnd(old, heading) + 1
    IN /\ Len(new) >= heading + after
       /\ SubSeq(new, 1, heading - 1) = SubSeq(old, 1, heading - 1)
       /\ LastLines(new, after) = LastLines(old, after)

\* C3: the lines before the section's heading and the lines from the end of
\* the section's extent on are in the file after write_section as they were,
\* in the same order; a file without the section keeps all its lines.
C3_OtherLinesUnchanged ==
    wrote =>
        LET old == OldLines
            new == NewLines
            headings == HeadingLines(old, section_key)
        IN IF headings # {}
           THEN SameOutsideSection(old, new, Min(headings))
           ELSE /\ Len(new) >= Len(old)
                /\ \A i \in 1..Len(old) : Body(new[i]) = Body(old[i])

\* a section with lines before it, lines in it and lines after it was rewritten
C3_Witness ==
    /\ wrote
    /\ file # before
    /\ LET old == OldLines
           headings == HeadingLines(old, section_key)
       IN /\ headings # {}
          /\ Min(headings) > 1
          /\ SectionEnd(old, Min(headings)) > Min(headings) + 1
          /\ SectionEnd(old, Min(headings)) <= Len(old)

\* C4: writing the same list again leaves the file as the first write left
\* it, and the item lines under the heading are the distinct elements of the
\* list in ascending order.
C4_RewriteIdempotent ==
    (wrote /\ new_data.type = "list") =>
        /\ write_section(file, section_key, new_data) = file
        /\ LET new == NewLines
               headings == HeadingLines(new, section_key)
           IN headings # {} => ItemsFollow(new, Min(headings), new_data)

\* C5: when the file has no heading for the key, write_section puts the
\* heading line after all the original lines (as the only line when there
\* were none) and the rendered items directly under it.
C5_MissingSectionAppended ==
    (wrote /\ new_data.type = "list") =>
        LET old == OldLines
            new == NewLines
        IN HeadingLines(old, section_key) = {} =>
            \E h \in HeadingLines(new, section_key) :
                /\ h > Len(old)
                /\ old = <<>> => h = 1
                /\ Strip(new[h]) = section_key \o <<":">>
                /\ ItemsFollow(new, h, new_data)

-----------------------------------------------------------------------------
(* ConfigManager: add/remove of additional apps and of fake app ids *)

MaxOps == 3

\* a valid config file: an optional comment line, an optional AdditionalApps
\* section and an optional FakeAppIds section, written as the editor writes
\* them
ConfigText(comment, hasApps, a, hasFakes, m) ==
    (IF comment THEN <<"#", " ", "c", "\n">> ELSE <<>>)
        \o (IF hasApps
            THEN Heading(AdditionalApps) \o <<"\n">>
                     \o Concat(FormatNewData(ListValue(SetToSeq(a)), 0))
            ELSE <<>>)
        \o (IF hasFakes
            THEN Heading(FakeAppIds) \o <<"\n">> \o Concat(FormatNewData(DictValue(m), 0))
            ELSE <<>>)

FakeMaps == UNION {[ks -> FakeIds] : ks \in SUBSET AppIds}

InitConfig ==
    /\ \E missing, comment, hasApps, hasFakes \in BOOLEAN :
       \E a \in SUBSET AppIds, m \in FakeMaps :
          /\ hasApps \/ a = {}
          /\ hasFakes \/ m = NoItems
          /\ missing => ~comment /\ ~hasApps /\ ~hasFakes
          /\ file = IF missing THEN NoFile
                    ELSE FileOf(ConfigText(comment, hasApps, a, hasFakes, m))
          /\ apps = a
          /\ fakes = m
    /\ before = file
    /\ section_key = <<>>
    /\ new_data = ListValue(<<>>)
    /\ wrote = FALSE
    /\ ops = 0
    /\ failed = FALSE
    /\ MergeIdle
    /\ BuildIdle
    /\ SchemaIdle
    /\ RerunIdle
    /\ CrashIdle
    /\ CacheIdle
    /\ ManifestIdle
    /\ RetryIdle
    /\ SyncIdle
    /\ BatchIdle
    /\ ManagerIdle

\* set(x) of what get_additional_apps returned: the elements of a list, the
\* keys of a dict
SetOf(value) == IF value.type = "list" THEN Range(value.items) ELSE DOMAIN value.items

\* set(...) raises TypeError on None and on an int
Iterable(value) == value.type \in {"list", "dict"}

\* add_additional_app(app_id)
AddAdditionalApp(app_id) ==
    /\ ops < MaxOps
    /\ \E read \in {get_additional_apps(file)} :
          IF Iterable(read)
          THEN /\ file' = write_section(file, AdditionalApps,
                                        ListValue(SetToSeq(SetOf(read) \cup {app_id})))
               /\ failed' = FALSE
          ELSE /\ file' = file
               /\ failed' = TRUE
    /\ apps' = apps \cup {app_id}
    /\ ops' = ops + 1
    /\ UNCHANGED <<fakes, before, section_key, new_data, wrote, mergeVars, buildVars, schemaVars, rerunVars, crashVars, cacheVars, manifestVars, retryVars, syncVars, batchVars, managerVars>>

\* remove_additional_app(app_id)
RemoveAdditionalApp(app_id) ==
    /\ ops < MaxOps
    /\ \E read \in {get_additional_apps(file)} :
          IF Iterable(read)
          THEN /\ file' = write_section(file, AdditionalApps,
                                        ListValue(SetToSeq(SetOf(read) \ {app_id})))
               /\ failed' = FALSE
          ELSE /\ file' = file
               /\ failed' = TRUE
    /\ apps' = apps \ {app_id}
    /\ ops' = ops + 1
    /\ UNCHANGED <<fakes, before, section_key, new_data, wrote, mergeVars, buildVars, schemaVars, rerunVars, crashVars, cacheVars, manifestVars, retryVars, syncVars, batchVars, managerVars>>

\* add_fake_app_id(real_id, fake_id): mapping[real_id] = fake_id raises on
\* None, on a list and on an int
AddFakeAppId(real_id, fake_id) ==
    /\ ops < MaxOps
    /\ \E read \in {get_fake_app_ids(file)} :
          IF read.type = "dict"
          THEN /\ file' = write_section(file, FakeAppIds,
                                        DictValue(Put(read.items, real_id, fake_id)))
               /\ failed' = FALSE
          ELSE /\ file' = file
               /\ failed' = TRUE
    /\ fakes' = Put(fakes, real_id, fake_id)
    /\ ops' = ops + 1
    /\ UNCHANGED <<apps, before, section_key, new_data, wrote, mergeVars, buildVars, schemaVars, rerunVars, crashVars, cacheVars, manifestVars, retryVars, syncVars, batchVars, managerVars>>

\* remove_fake_app_id(real_id): mapping.pop(real_id, None)
RemoveFakeAppId(real_id) ==
    /\ ops < MaxOps
    /\ \E read \in {get_fake_app_ids(file)} :
          IF read.type = "dict"
          THEN /\ file' = write_section(file, FakeAppIds,
                    DictValue([k \in DOMAIN read.items \ {real_id} |-> read.items[k]]))
               /\ failed' = FALSE
          ELSE /\ file' = file
               /\ failed' = TRUE
    /\ fakes' = [k \in DOMAIN fakes \ {real_id} |-> fakes[k]]
    /\ ops' = ops + 1
    /\ UNCHANGED <<apps, before, section_key, new_data, wrote, mergeVars, buildVars, schemaVars, rerunVars, crashVars, cacheVars, manifestVars, retryVars, syncVars, batchVars, managerVars>>

NextConfig ==
    \/ \E app_id \in AppIds : AddAdditionalApp(app_id)
    \/ \E app_id \in AppIds : RemoveAdditionalApp(app_id)
    \/ \E real_id \in AppIds, fake_id \in FakeIds : AddFakeAppId(real_id, fake_id)
    \/ \E real_id \in AppIds : RemoveFakeAppId(real_id)

SpecConfig == InitConfig /\ [][NextConfig]_vars

\* C6: after any sequence of add/remove calls the file parses, and
\* get_additional_apps() returns exactly the ids added and not removed since,
\* get_fake_app_ids() exactly the mapping the calls built.
C6_ReadsAuthoritative ==
    /\ file.exists => safe_load(file.text).ok
    /\ LET read == get_additional_apps(file)
       IN read.type = "list" /\ Range(read.items) = apps
    /\ LET read == get_fake_app_ids(file)
       IN read.type = "dict" /\ read.items = fakes

-----------------------------------------------------------------------------
(* The schema builder on its own *)

MaxAch == 33
ShuffledIds == {1, 2, 3}
Languages == {"english", "german"}

\* one record of availableGameStats.achievements; odd records carry a
\* description and are hidden
Achievement(n) ==
    [name |-> "ACH_" \o ToString(n),
     displayName |-> "Name " \o ToString(n),
     hasDescription |-> n % 2 = 1,
     description |-> "Desc " \o ToString(n),
     hidden |-> n % 2,
     icon |-> <<"https:", "", "cdn", "apps", "i" \o ToString(n) \o ".jpg">>,
     icongray |-> <<"https:", "", "cdn", "apps", "g" \o ToString(n) \o ".jpg">>]

Records(ids) == [i \in 1..Len(ids) |-> Achievement(ids[i])]

AscendingLists == {[i \in 1..n |-> i] : n \in 0..MaxAch}

\* the lists of at most maxlen distinct ids of S, in every order
InjectiveLists(S, maxlen) ==
    {q \in UNION {[1..n -> S] : n \in 0..maxlen} :
        \A i, j \in 1..Len(q) : i # j => q[i] # q[j]}

InitBuild ==
    /\ \E ids \in AscendingLists \cup InjectiveLists(ShuffledIds, 3), hasStats \in BOOLEAN :
          /\ hasStats \/ ids = <<>>
          /\ game_data = Game(hasStats, Records(ids))
    /\ language \in Languages
    /\ new_schema = EmptyDict
    /\ built = FALSE
    /\ MergeIdle
    /\ WriteIdle
    /\ ConfigIdle
    /\ SchemaIdle
    /\ RerunIdle
    /\ CrashIdle
    /\ CacheIdle
    /\ ManifestIdle
    /\ RetryIdle
    /\ SyncIdle
    /\ BatchIdle
    /\ ManagerIdle

\* lines 80-101 of get_game_schema
Build ==
    /\ ~built
    /\ new_schema' = BuildSchema(AppId, game_data, language)
    /\ built' = TRUE
    /\ UNCHANGED <<game_data, language>>
    /\ UNCHANGED <<mergeVars, writeVars, configVars, schemaVars, rerunVars, crashVars, cacheVars, manifestVars, retryVars, syncVars, batchVars, managerVars>>

NextBuild == Build

SpecBuild == InitBuild /\ [][NextBuild]_vars

\* the stats mapping of a schema and the bits mapping of one of its blocks
StatsIn(schema) == schema.kids[AppId].kids["stats"].kids
BitsIn(schema, block) == StatsIn(schema)[block].kids["bits"].kids

\* C9: the built schema has the blocks "1".."ceil(n/32)" and no other, record
\* i (zero-based) is the bit i mod 32 of block (i div 32)+1 and the blocks
\* hold no other bit; 33 records give block "1" with bits 0..31 and block "2"
\* with bit 0, 32 records one full block, 0 records an empty stats mapping.
C9_RecordsPackedBy32 ==
    built =>
        LET n == Len(game_data.achievements)
            blocks == (n + 31) \div 32
        IN /\ DOMAIN StatsIn(new_schema) = {ToString(b) : b \in 1..blocks}
           /\ \A i \in 0..(n - 1) :
                LET bits == BitsIn(new_schema, ToString((i \div 32) + 1))
                IN /\ ToString(i % 32) \in DOMAIN bits
                   /\ bits[ToString(i % 32)].kids["name"].val
                          = game_data.achievements[i + 1].name
                   /\ bits[ToString(i % 32)].kids["bit"].val = i % 32
           /\ \A b \in 1..blocks :
                DOMAIN BitsIn(new_schema, ToString(b))
                    = {ToString(i % 32) : i \in {j \in 0..(n - 1) : (j \div 32) + 1 = b}}
           /\ n = 33 =>
                /\ DOMAIN StatsIn(new_schema) = {"1", "2"}
                /\ DOMAIN BitsIn(new_schema, "1") = {ToString(k) : k \in 0..31}
                /\ DOMAIN BitsIn(new_schema, "2") = {"0"}
           /\ n = 32 =>
                /\ DOMAIN StatsIn(new_schema) = {"1"}
                /\ DOMAIN BitsIn(new_schema, "1") = {ToString(k) : k \in 0..31}
           /\ n = 0 => StatsIn(new_schema) = NoItems

\* the builder has run on 33 records and made a second block
C9_Witness ==
    /\ built
    /\ Len(game_data.achievements) = 33
    /\ "2" \in DOMAIN StatsIn(new_schema)
    /\ BitsIn(new_schema, "2")["0"].kids["name"].val = game_data.achievements[33].name

\* the paths of a tree that end in the given key
PathsTo(tree, key) == {p \in Paths(tree) : p[Len(p)] = key}

\* C12: the tree the builder makes, encoded and decoded again, is an equal
\* tree, and every key keeps its value type: "bit" is a 32-bit integer with
\* the bit index as its value, the other leaves are strings and the maps
\* are maps.
C12_RoundTripKeepsTypes ==
    built =>
        With(binary_load(binary_dumps(new_schema)), LAMBDA loaded :
            /\ loaded.ok
            /\ loaded.tree = new_schema
            /\ Paths(loaded.tree) = Paths(new_schema)
            /\ \A p \in Paths(new_schema) :
                    ValueAt(loaded.tree, p).kind = ValueAt(new_schema, p).kind
            /\ \A p \in PathsTo(loaded.tree, "bit") :
                    /\ ValueAt(loaded.tree, p).kind = "int"
                    /\ ToString(ValueAt(loaded.tree, p).val) = p[Len(p) - 1]
            /\ \A p \in PathsTo(loaded.tree, "token") \cup PathsTo(loaded.tree, "hidden")
                        \cup PathsTo(loaded.tree, "id") \cup PathsTo(loaded.tree, "type") :
                    ValueAt(loaded.tree, p).kind = "str"
            /\ \A p \in PathsTo(loaded.tree, "bits") \cup PathsTo(loaded.tree, "display")
                        \cup PathsTo(loaded.tree, "stats") :
                    ValueAt(loaded.tree, p).kind = "map")

\* a tree of two blocks was built, and its encoding holds an int32 entry
\* for the first bit of the second block
C12_Witness ==
    /\ built
    /\ Len(game_data.achievements) = 33
    /\ BitsIn(new_schema, "2")["0"].kids["bit"] = IntLeaf(0)
    /\ \E i \in 1..Len(binary_dumps(new_schema)) :
          binary_dumps(new_schema)[i] = Int32Entry("bit", 31)

-----------------------------------------------------------------------------
(* get_game_schema on the schema file of one app *)

MaxRuns == 2

SmallLists == InjectiveLists(ShuffledIds, 2)

\* the lists get_game_schema is run on: the short ones and one that fills
\* more than a block
SchemaLists == SmallLists \cup {[i \in 1..MaxAch |-> i]}

Responses ==
    {Game(TRUE, Records(ids)) : ids \in SchemaLists} \cup {Game(FALSE, <<>>), NoGame, HttpError}

\* what get_batch_mode returns and the callers pass on
BatchModes == {"ask", "overwrite", "update", "generate_new"}

\* the answers to the prompt of line 122
Choices == {"1", "2", "3"}

\* a file that ends after its first n entries
Truncated(bytes, n) == SubSeq(bytes, 1, n)

\* a file that ends in the middle of its entry n
CutShort(bytes, n) == SubSeq(bytes, 1, n - 1) \o <<[bytes[n] EXCEPT !.whole = FALSE]>>

\* a file whose entry n has the type byte 0x99
UnknownType(bytes, n) == [bytes EXCEPT ![n].type = 153]

\* the malformed files made of the bytes of a schema file
Malformed(bytes) ==
    {Truncated(bytes, n) : n \in {0, Len(bytes) \div 2, Len(bytes) - 1}}
        \cup {CutShort(bytes, Len(bytes) \div 2), UnknownType(bytes, Len(bytes) \div 2)}

\* the schema files of the achievement lists
BuiltFiles == {binary_dumps(BuildSchema(AppId, Game(TRUE, Records(ids)), "english")) :
                   ids \in SchemaLists}

\* the malformed schema files get_game_schema is run on
MalformedFiles ==
    Malformed(binary_dumps(BuildSchema(AppId, Game(TRUE, Records(<<1, 2>>)), "english")))

InitSchema ==
    /\ schema_file \in {NoSchemaFile}
           \cup {[exists |-> TRUE, bytes |-> bytes] : bytes \in BuiltFiles \cup MalformedFiles}
    /\ stats_file \in BOOLEAN
    /\ summary = NewSummary
    /\ action = "none"
    /\ runs = 0
    /\ RerunIdle
    /\ CrashIdle
    /\ CacheIdle
    /\ ManifestIdle
    /\ RetryIdle
    /\ MergeIdle
    /\ WriteIdle
    /\ ConfigIdle
    /\ BuildIdle
    /\ SyncIdle
    /\ BatchIdle
    /\ ManagerIdle

\* the action of lines 107-131 when the schema file exists; `existing` is
\* the outcome of vdf.binary_load on it
ChosenAction(new, existing, batch_mode, choice) ==
    IF batch_mode # "ask" THEN batch_mode
    ELSE IF ~existing.ok
    THEN (IF choice = "1" THEN "overwrite"
          ELSE IF choice = "2" THEN "update"
          ELSE "skip")
    ELSE IF get_achievement_names_from_schema(new, AppId)
                \ get_achievement_names_from_schema(existing.tree, AppId) = {}
    THEN "skip"
    ELSE IF choice = "1" THEN "update"
    ELSE IF choice = "2" THEN "overwrite"
    ELSE "skip"

\* summary after the branch of lines 133-149 has counted the action
Counted(act) ==
    IF act \in {"create", "update"} THEN [summary EXCEPT !.updated = @ + 1]
    ELSE IF act = "overwrite" THEN [summary EXCEPT !.overwritten = @ + 1]
    ELSE IF act = "skip" THEN [summary EXCEPT !.skipped = @ + 1]
    ELSE summary

\* the update branch with a file that fails to load taken for an empty one
UpdateFromEmpty(new, existing) == deep_merge(new, existing.tree, <<>>)

\* lines 138-139: the existing schema is loaded, which raises when the file
\* is malformed, and the new schema is merged into it
Update(new, existing) ==
    IF ~existing.ok THEN [dest |-> existing.tree, raised |-> TRUE]
    ELSE deep_merge(new, existing.tree, <<>>)

\* what a call works out of the response and of the schema file before it
\* looks at the action: the new schema (lines 80-101), the existing one
\* (lines 110, 138), the two merged (line 139) and the bytes of lines 135,
\* 141 and 148
Worked(response, existing) ==
    With(BuildSchema(AppId, response, language), LAMBDA new :
    With(Update(new, existing), LAMBDA merged :
        [new |-> new, existing |-> existing, merged |-> merged,
         new_file |-> SchemaFileOf(new),
         merged_file |-> IF merged.raised THEN schema_file ELSE SchemaFileOf(merged.dest)]))

\* get_game_schema(api_key, steam_id, app_id, summary, language, batch_mode)
\* with the response of the API, the answer to the prompt and whether the
\* stats template can be copied.  An exception of the update branch is none
\* of those the function catches: it escapes before the file is opened for
\* writing and before anything is counted.
Call(response, worked, batch_mode, choice, template) ==
    IF response.kind # "game"
    THEN /\ summary' = [summary EXCEPT !.errors = @ + 1]
         /\ action' = "error"
         /\ UNCHANGED <<schema_file, stats_file>>
    ELSE \E act \in {IF schema_file.exists
                     THEN ChosenAction(worked.new, worked.existing, batch_mode, choice)
                     ELSE "create"} :
            IF act = "update" /\ worked.merged.raised
            THEN /\ action' = "raised"
                 /\ UNCHANGED <<schema_file, stats_file, summary>>
            ELSE /\ action' = act
                 /\ schema_file' = IF act \in {"create", "overwrite"} THEN worked.new_file
                                   ELSE IF act = "update" THEN worked.merged_file
                                   ELSE schema_file
                 /\ stats_file' = (stats_file \/ template)
                 /\ summary' = IF stats_file \/ template
                               THEN [Counted(act) EXCEPT !.total = @ + 1]
                               ELSE [Counted(act) EXCEPT !.errors = @ + 1]

\* the outcome of vdf.binary_load on the schema file
Existing == IF schema_file.exists THEN binary_load(schema_file.bytes) ELSE MalformedBinary

\* the response that is not a game needs no schema worked out
WorkedOf(response, existing) ==
    IF response.kind = "game" THEN Worked(response, existing)
    ELSE [new |-> EmptyDict, existing |-> existing,
          merged |-> [dest |-> EmptyDict, raised |-> FALSE],
          new_file |-> schema_file, merged_file |-> schema_file]

GetGameSchema(response, worked, batch_mode, choice, template) ==
    /\ runs < MaxRuns
    /\ runs' = runs + 1
    /\ Call(response, worked, batch_mode, choice, template)
    /\ UNCHANGED <<mergeVars, writeVars, configVars, buildVars, rerunVars, crashVars, cacheVars, manifestVars, retryVars, syncVars, batchVars, managerVars>>

NextSchema ==
    /\ runs < MaxRuns
    /\ \E existing \in {Existing} :
       \E response \in Responses :
       \E worked \in {WorkedOf(response, existing)} :
       \E batch_mode \in BatchModes :
       \E choice \in IF batch_mode = "ask" /\ schema_file.exists THEN Choices ELSE {"3"} :
       \E template \in IF stats_file THEN {TRUE} ELSE BOOLEAN :
           GetGameSchema(response, worked, batch_mode, choice, template)

SpecSchema == InitSchema /\ [][NextSchema]_vars

-----------------------------------------------------------------------------
(* get_game_schema run again and again on one schema file, in the batch    *)
(* modes that update it                                                    *)

RerunLists == {<<1>>, <<2, 1>>, [i \in 1..MaxAch |-> i]}

RerunResponses == {Game(TRUE, Records(ids)) : ids \in RerunLists}

RerunModes == {"update", "ask"}

InitRerun ==
    /\ schema_file \in {NoSchemaFile}
           \cup {[exists |-> TRUE, bytes |-> bytes] : bytes \in BuiltFiles \cup MalformedFiles}
    /\ stats_file = TRUE
    /\ summary = NewSummary
    /\ action = "none"
    /\ runs = 0
    /\ RerunIdle
    /\ CrashIdle
    /\ CacheIdle
    /\ ManifestIdle
    /\ RetryIdle
    /\ MergeIdle
    /\ WriteIdle
    /\ ConfigIdle
    /\ BuildIdle
    /\ SyncIdle
    /\ BatchIdle
    /\ ManagerIdle

\* one more call of get_game_schema, and what is observed of it
Rerun(response, worked, batch_mode, choice) ==
    /\ runs < MaxRuns
    /\ runs' = runs + 1
    /\ Call(response, worked, batch_mode, choice, TRUE)
    /\ last_data' = response
    /\ before_file' = schema_file
    /\ chosen' = IF schema_file.exists
                 THEN ChosenAction(worked.new, worked.existing, batch_mode, choice)
                 ELSE "create"
    /\ twice' = (action = "update" /\ action' = "update" /\ last_data = response)
    /\ UNCHANGED <<mergeVars, writeVars, configVars, buildVars, crashVars, cacheVars, manifestVars, retryVars, syncVars, batchVars, managerVars>>

NextRerun ==
    /\ runs < MaxRuns
    /\ \E existing \in {Existing} :
       \E response \in RerunResponses :
       \E worked \in {WorkedOf(response, existing)} :
       \E batch_mode \in RerunModes :
       \E choice \in IF batch_mode = "ask" /\ schema_file.exists THEN Choices ELSE {"3"} :
           Rerun(response, worked, batch_mode, choice)

SpecRerun == InitRerun /\ [][NextRerun]_vars

\* the tree the schema file holds
SchemaTree == binary_load(schema_file.bytes).tree

\* the places (block, bit) of the bit definitions of a schema
BitPlaces(schema) ==
    UNION {{<<b, k>> : k \in DOMAIN BitsIn(schema, b)} : b \in DOMAIN StatsIn(schema)}

\* the API name of each bit definition
BitNames(schema) ==
    [p \in BitPlaces(schema) |-> BitsIn(schema, p[1])[p[2]].kids["name"].val]

\* C10: in the schema file no two bit definitions carry the same API name.
C10_NamesUnique ==
    (schema_file.exists /\ binary_load(schema_file.bytes).ok) =>
        With(BitNames(SchemaTree), LAMBDA names :
            \A p, q \in DOMAIN names : p # q => names[p] # names[q])

\* C11: the schema file that get_game_schema wrote has the block ids "1".."k"
\* and no other, every block holds at least one bit and every bit index is
\* one of 0..31.
C11_BlocksContiguous ==
    (schema_file.exists /\ action \in {"create", "overwrite", "update"}) =>
        With(SchemaTree, LAMBDA written :
            LET blocks == DOMAIN StatsIn(written)
            IN /\ blocks = {ToString(b) : b \in 1..Cardinality(blocks)}
               /\ \A b \in blocks :
                    /\ BitsIn(written, b) # NoItems
                    /\ DOMAIN BitsIn(written, b) \subseteq {ToString(i) : i \in 0..31})

\* an update has merged a list of one block into a file of two blocks, or
\* the other way round, and the file holds both blocks
C11_Witness ==
    /\ action = "update"
    /\ schema_file.exists
    /\ DOMAIN StatsIn(SchemaTree) = {"1", "2"}

\* the display entry of record i (counted from 0) in a schema
DisplayOf(schema, i) ==
    BitsIn(schema, ToString((i \div 32) + 1))[ToString(i % 32)].kids["display"].kids

\* C13: the file a call wrote holds for record i of the response the tokens
\* NEW_ACHIEVEMENT_{block}_{bit}_NAME and _DESC with block = (i div 32) + 1
\* and bit = i mod 32, and when two calls in a row have updated the file on
\* one response, the file after the second is the file after the first.
C13_RerunIdempotent ==
    /\ action \in {"create", "overwrite", "update"} =>
          With(SchemaTree, LAMBDA written :
             \A i \in 0..(Len(last_data.achievements) - 1) :
                LET place == "NEW_ACHIEVEMENT_" \o ToString((i \div 32) + 1)
                                 \o "_" \o ToString(i % 32)
                IN /\ DisplayOf(written, i)["name"].kids["token"] = StrLeaf(place \o "_NAME")
                   /\ DisplayOf(written, i)["desc"].kids["token"] = StrLeaf(place \o "_DESC"))
    /\ twice => schema_file = before_file

\* two updates in a row on the response of more than a block
C13_Witness ==
    /\ twice
    /\ runs = 2
    /\ Len(last_data.achievements) > 32
    /\ schema_file = before_file

\* C14: a malformed schema file (cut at an entry or inside one, or holding
\* the type byte 0x99) decodes to an error and to no tree, and a call that
\* settles on update with such a file raises and leaves its bytes as they
\* were.
C14_MalformedAborts ==
    /\ \A bytes \in MalformedFiles : binary_load(bytes) = MalformedBinary
    /\ (chosen = "update" /\ before_file.exists /\ before_file.bytes \in MalformedFiles) =>
          /\ action = "raised"
          /\ schema_file = before_file

\* an update was asked for on a file with the type byte 0x99
C14_Witness ==
    /\ chosen = "update"
    /\ action = "raised"
    /\ before_file.exists
    /\ \E i \in 1..Len(before_file.bytes) : before_file.bytes[i].type = 153
    /\ schema_file = before_file

-----------------------------------------------------------------------------
(* Comment lines and write_section, checked under SpecWrite *)

\* a line whose first character that is not whitespace is "#"
IsComment(line) == Strip(line) # <<>> /\ Strip(line)[1] = "#"

\* how often the lines hold a line with this content
Occurrences(lines, body) == Cardinality({i \in 1..Len(lines) : Body(lines[i]) = body})

\* C15: every comment line of the file, wherever it stands, is in the file
\* after write_section with the bytes it had.
C15_CommentsKept ==
    wrote =>
        \A i \in 1..Len(OldLines) :
            IsComment(OldLines[i]) =>
                Occurrences(NewLines, Body(OldLines[i]))
                    >= Occurrences(OldLines, Body(OldLines[i]))

-----------------------------------------------------------------------------
(* A config file that is not valid YAML, checked under SpecConfig *)

\* yaml.safe_load raises yaml.YAMLError on the file
InvalidYaml(f) == f.exists /\ ~safe_load(f.text).ok

\* C16: an add or remove call on a config file that is not valid YAML ends
\* with an exception and without a write: the file is as it was.
C16_InvalidYamlNotEdited ==
    [][(InvalidYaml(file) /\ ops' = ops + 1) => (failed' /\ file' = file)]_vars

\* a call has failed on a file that is not valid YAML
C16_Witness ==
    /\ ops > 0
    /\ failed
    /\ InvalidYaml(file)

-----------------------------------------------------------------------------
(* The writes of write_section (lines 123-125) and of get_game_schema      *)
(* (lines 135, 141, 148), step by step: open(path, 'w') creates the file   *)
(* or cuts it to nothing, the content reaches the disk piece by piece, and *)
(* the process may be stopped or the disk may fill up between two steps.   *)

CrashLists == {<<1>>, <<2, 1>>}

InitCrash ==
    /\ \E comment, hasApps \in BOOLEAN : \E a \in SUBSET AppIds :
          /\ hasApps \/ a = {}
          /\ file \in {NoFile, FileOf(ConfigText(comment, hasApps, a, FALSE, NoItems))}
    /\ schema_file \in {NoSchemaFile,
                         SchemaFileOf(BuildSchema(AppId, Game(TRUE, Records(<<1>>)), "english"))}
    /\ before = file
    /\ section_key = <<>>
    /\ new_data = ListValue(<<>>)
    /\ wrote = FALSE
    /\ stats_file = FALSE
    /\ summary = NewSummary
    /\ action = "none"
    /\ runs = 0
    /\ CrashIdle
    /\ CacheIdle
    /\ ManifestIdle
    /\ RetryIdle
    /\ ConfigIdle
    /\ MergeIdle
    /\ BuildIdle
    /\ RerunIdle
    /\ SyncIdle
    /\ BatchIdle
    /\ ManagerIdle

\* write_section up to line 124: the final lines are worked out and the
\* config file is opened for writing
OpenConfig(key, data) ==
    /\ target = "none"
    /\ ~crashed
    /\ target' = "config"
    /\ old_content' = file
    /\ new_content' = write_section(file, key, data)
    /\ pending' = ReadLines(write_section(file, key, data).text)
    /\ file' = FileOf(<<>>)
    /\ UNCHANGED <<crashed, schema_file, before, section_key, new_data, wrote>>
    /\ UNCHANGED <<stats_file, summary, action, runs>>
    /\ UNCHANGED <<mergeVars, configVars, buildVars, rerunVars, cacheVars, manifestVars, retryVars, syncVars, batchVars, managerVars>>

\* get_game_schema up to the open of line 135 or 148: the new schema is
\* dumped and the schema file is opened for writing
OpenSchema(response) ==
    /\ target = "none"
    /\ ~crashed
    /\ target' = "schema"
    /\ old_content' = schema_file
    /\ new_content' = SchemaFileOf(BuildSchema(AppId, response, language))
    /\ pending' = binary_dumps(BuildSchema(AppId, response, language))
    /\ schema_file' = [exists |-> TRUE, bytes |-> <<>>]
    /\ UNCHANGED <<crashed, file, before, section_key, new_data, wrote>>
    /\ UNCHANGED <<stats_file, summary, action, runs>>
    /\ UNCHANGED <<mergeVars, configVars, buildVars, rerunVars, cacheVars, manifestVars, retryVars, syncVars, batchVars, managerVars>>

\* the next piece of the content reaches the disk
WritePiece ==
    /\ target \in {"config", "schema"}
    /\ ~crashed
    /\ pending # <<>>
    /\ pending' = Tail(pending)
    /\ IF target = "config"
       THEN /\ file' = FileOf(file.text \o Head(pending))
            /\ UNCHANGED schema_file
       ELSE /\ schema_file' = [exists |-> TRUE, bytes |-> Append(schema_file.bytes, Head(pending))]
            /\ UNCHANGED file
    /\ UNCHANGED <<target, old_content, new_content, crashed>>
    /\ UNCHANGED <<before, section_key, new_data, wrote, stats_file, summary, action, runs>>
    /\ UNCHANGED <<mergeVars, configVars, buildVars, rerunVars, cacheVars, manifestVars, retryVars, syncVars, batchVars, managerVars>>

\* the file is closed with all of its content written
CloseFile ==
    /\ target \in {"config", "schema"}
    /\ ~crashed
    /\ pending = <<>>
    /\ target' = "closed"
    /\ UNCHANGED <<pending, old_content, new_content, crashed>>
    /\ UNCHANGED <<writeVars, schemaVars, mergeVars, configVars, buildVars, rerunVars, cacheVars, manifestVars, retryVars, syncVars, batchVars, managerVars>>

\* the process is stopped, or a write fails, while the file is open
Interrupt ==
    /\ target \in {"config", "schema"}
    /\ ~crashed
    /\ crashed' = TRUE
    /\ UNCHANGED <<target, pending, old_content, new_content>>
    /\ UNCHANGED <<writeVars, schemaVars, mergeVars, configVars, buildVars, rerunVars, cacheVars, manifestVars, retryVars, syncVars, batchVars, managerVars>>

NextCrash ==
    \/ \E data \in ListValues : OpenConfig(AdditionalApps, data)
    \/ \E ids \in CrashLists : OpenSchema(Game(TRUE, Records(ids)))
    \/ WritePiece
    \/ CloseFile
    \/ Interrupt

SpecCrash == InitCrash /\ [][NextCrash]_vars

\* the file that was open when the write was interrupted
OnDisk == IF target = "config" THEN file ELSE schema_file

\* C17: after an interrupted write the file on disk holds the complete
\* content it had before or the complete new content.
C17_WriteAllOrNothing ==
    crashed => OnDisk \in {old_content, new_content}

-----------------------------------------------------------------------------
(* The app details cache: read_cache and write_cache of shared_utils.py    *)
(* and the main loop of sls_manager.py.  The text of the cache file is the *)
(* sequence of the tokens of a JSON object.                                *)

OpenBrace == [t |-> "{", key |-> "", val |-> ""]
CloseBrace == [t |-> "}", key |-> "", val |-> ""]
Member(key, val) == [t |-> "member", key |-> key, val |-> val]

\* json.dump(cache_data, f, indent=4)
json_dump(cache_data) ==
    LET keys == SetToSeq(DOMAIN cache_data)
    IN <<OpenBrace>> \o [i \in 1..Len(keys) |-> Member(keys[i], cache_data[keys[i]])]
           \o <<CloseBrace>>

\* json.load(f): the dict of an object, a later member of a name replacing
\* an earlier one; json.JSONDecodeError for any other text
json_load(text) ==
    IF /\ Len(text) >= 2
       /\ text[1] = OpenBrace
       /\ text[Len(text)] = CloseBrace
       /\ \A i \in 2..(Len(text) - 1) : text[i].t = "member"
    THEN [ok |-> TRUE,
          value |-> [k \in {text[i].key : i \in 2..(Len(text) - 1)} |->
                        text[Max({i \in 2..(Len(text) - 1) : text[i].key = k})].val]]
    ELSE [ok |-> FALSE, value |-> NoItems]

\* read_cache(): {} for a file that is absent and, with a warning, for a
\* file that does not load
read_cache(f) ==
    IF ~f.exists THEN NoItems
    ELSE IF json_load(f.text).ok THEN json_load(f.text).value
    ELSE NoItems

\* write_cache(cache_data)
write_cache(cache_data) == [exists |-> TRUE, text |-> json_dump(cache_data)]

CachedApps == {"10", "20"}
Details == {"game", "dlc"}
Caches == UNION {[ids -> Details] : ids \in SUBSET CachedApps}

\* a cache file whose text ends before the closing brace, and an empty one
CorruptTexts == {SubSeq(json_dump(c), 1, Len(json_dump(c)) - 1) : c \in Caches} \cup {<<>>}

InitCache ==
    /\ cache_file \in {NoCacheFile} \cup {write_cache(c) : c \in Caches}
                        \cup {[exists |-> TRUE, text |-> t] : t \in CorruptTexts}
    /\ cache_file0 = cache_file
    /\ cache = NoItems
    /\ returned = [called |-> FALSE, value |-> NoItems]
    /\ cache_modified = FALSE
    /\ phase = "start"
    /\ MergeIdle
    /\ WriteIdle
    /\ ConfigIdle
    /\ BuildIdle
    /\ SchemaIdle
    /\ RerunIdle
    /\ CrashIdle
    /\ ManifestIdle
    /\ RetryIdle
    /\ SyncIdle
    /\ BatchIdle
    /\ ManagerIdle

\* main, lines 454-456
ReadCache ==
    /\ phase = "start"
    /\ cache' = read_cache(cache_file)
    /\ returned' = [called |-> TRUE, value |-> read_cache(cache_file)]
    /\ cache_modified' = FALSE
    /\ phase' = "menu"
    /\ UNCHANGED <<cache_file, cache_file0>>
    /\ UNCHANGED <<mergeVars, writeVars, configVars, buildVars, schemaVars, rerunVars,
                   crashVars, manifestVars, retryVars, syncVars, batchVars, managerVars>>

\* the commands of the menu that look app details up
Commands == {"list", "add", "remove", "online_fix"}

\* whether the handler of the command returns True to main when a lookup
\* has modified the cache: handle_list_added_games (line 142),
\* handle_add_game (lines 151, 163, 203) and the handlers of the online fix
\* menu (lines 366, 386, 411, 439) do; handle_remove_game drops the flag of
\* get_all_app_details (lines 262, 293) and returns False (line 237)
Propagates(menu_command) == menu_command # "remove"

\* a handler of the menu looks one app up: get_app_details(app_id, cache)
\* answers from the cache or, when the store answers, puts the details into
\* it and reports the cache as modified
LookUpApp(menu_command, app_id, fetched) ==
    /\ phase = "menu"
    /\ IF app_id \in DOMAIN cache \/ fetched = "none"
       THEN UNCHANGED <<cache, cache_modified>>
       ELSE /\ cache' = Put(cache, app_id, fetched)
            /\ cache_modified' = (cache_modified \/ Propagates(menu_command))
    /\ UNCHANGED <<cache_file, cache_file0, returned, phase>>
    /\ UNCHANGED <<mergeVars, writeVars, configVars, buildVars, schemaVars, rerunVars,
                   crashVars, manifestVars, retryVars, syncVars, batchVars, managerVars>>

\* main, lines 477-485: the loop is left and the cache is saved when a
\* handler has returned True
LeaveMenu ==
    /\ phase = "menu"
    /\ phase' = "exit"
    /\ cache_file' = IF cache_modified THEN write_cache(cache) ELSE cache_file
    /\ UNCHANGED <<cache_file0, cache, returned, cache_modified>>
    /\ UNCHANGED <<mergeVars, writeVars, configVars, buildVars, schemaVars, rerunVars,
                   crashVars, manifestVars, retryVars, syncVars, batchVars, managerVars>>

NextCache ==
    \/ ReadCache
    \/ \E menu_command \in Commands, app_id \in CachedApps, fetched \in Details \cup {"none"} :
          LookUpApp(menu_command, app_id, fetched)
    \/ LeaveMenu

SpecCache == InitCache /\ [][NextCache]_vars

\* the file is there and json.load raises on it
Corrupt(f) == f.exists /\ ~json_load(f.text).ok

\* C18: read_cache returns the empty mapping for an absent file only (or for
\* a file that holds the empty object), and a cache file that was corrupt
\* when main read it is never replaced.
C18_CorruptCacheKept ==
    /\ (returned.called /\ returned.value = NoItems) => ~Corrupt(cache_file0)
    /\ Corrupt(cache_file0) => cache_file = cache_file0

-----------------------------------------------------------------------------
(* parse_libraryfolders_vdf.  vdf.load gives the manifest as a tree whose  *)
(* leaves are strings, or raises.                                          *)

MaxAppId == 30

\* app_id.isdigit() for the keys of the manifests below
IsDigit(key) == key \in {ToString(n) : n \in 0..MaxAppId}

\* int(app_id)
IntOf(key) == CHOOSE n \in 0..MaxAppId : ToString(n) = key

\* folder_data.get('apps', {}).keys() of one value under "libraryfolders";
\* a value that is no dict is passed over, an "apps" that is no dict raises
AppKeys(folder_data) ==
    IF ~IsDict(folder_data) \/ "apps" \notin DOMAIN folder_data.kids
    THEN [raised |-> FALSE, keys |-> {}]
    ELSE IF ~IsDict(folder_data.kids["apps"])
    THEN [raised |-> TRUE, keys |-> {}]
    ELSE [raised |-> FALSE, keys |-> DOMAIN folder_data.kids["apps"].kids]

\* parse_libraryfolders_vdf(): [] for a missing file and for any exception
parse_libraryfolders_vdf(m) ==
    IF ~m.exists \/ ~m.ok THEN <<>>
    ELSE LET folders == IF "libraryfolders" \in DOMAIN m.tree.kids
                        THEN m.tree.kids["libraryfolders"] ELSE EmptyDict
         IN IF ~IsDict(folders) THEN <<>>
            ELSE IF \E f \in DOMAIN folders.kids : AppKeys(folders.kids[f]).raised
            THEN <<>>
            ELSE Sorted({IntOf(key) :
                           key \in {k \in UNION {AppKeys(folders.kids[f]).keys :
                                                    f \in DOMAIN folders.kids} : IsDigit(k)}})

\* an "apps" block with these keys
AppsBlock(keys) == Dict([k \in keys |-> StrLeaf("0")])

\* a library folder: its path, its "apps" and a further nested group
Folder(block, extra) ==
    Dict([k \in {"path"} \cup (IF block.kind = "none" THEN {} ELSE {"apps"})
                  \cup (IF extra.kind = "none" THEN {} ELSE {"extra"}) |->
             IF k = "path" THEN StrLeaf("/lib") ELSE IF k = "apps" THEN block ELSE extra])

Absent == [kind |-> "none"]

\* the "apps" of the first and of the second library folder
FirstApps == {Absent, StrLeaf("")} \cup {AppsBlock(keys) : keys \in SUBSET {"10", "x"}}
SecondApps == {AppsBlock(keys) : keys \in (SUBSET {"10", "20"}) \ {{}}}

\* no further group, an unrelated one, and one that holds an "apps" block
Extras == {Absent, Dict("a" :> StrLeaf("1")), Dict("apps" :> AppsBlock({"30"}))}

ManifestTrees ==
    {Dict("libraryfolders" :> Dict("0" :> Folder(block, extra))) :
         block \in FirstApps, extra \in Extras}
    \cup {Dict("libraryfolders" :> Dict(("0" :> Folder(block, extra)) @@ ("1" :> Folder(more, Absent)))) :
              block \in FirstApps, extra \in Extras, more \in SecondApps}
    \cup {EmptyDict, Dict("libraryfolders" :> StrLeaf(""))}

InitManifest ==
    /\ manifest \in {NoManifest, [exists |-> TRUE, ok |-> FALSE, tree |-> EmptyDict]}
                      \cup {[exists |-> TRUE, ok |-> TRUE, tree |-> t] : t \in ManifestTrees}
    /\ app_ids = <<>>
    /\ parsed = FALSE
    /\ MergeIdle
    /\ WriteIdle
    /\ ConfigIdle
    /\ BuildIdle
    /\ SchemaIdle
    /\ RerunIdle
    /\ CrashIdle
    /\ CacheIdle
    /\ RetryIdle
    /\ SyncIdle
    /\ BatchIdle
    /\ ManagerIdle

ParseLibraryFolders ==
    /\ ~parsed
    /\ app_ids' = parse_libraryfolders_vdf(manifest)
    /\ parsed' = TRUE
    /\ UNCHANGED manifest
    /\ UNCHANGED <<mergeVars, writeVars, configVars, buildVars, schemaVars, rerunVars,
                   crashVars, cacheVars, retryVars, syncVars, batchVars, managerVars>>

NextManifest == ParseLibraryFolders

SpecManifest == InitManifest /\ [][NextManifest]_vars

\* the keys directly inside every "apps" block of a tree, at any depth
RECURSIVE AllAppKeys(_)
AllAppKeys(t) ==
    IF ~IsDict(t) THEN {}
    ELSE UNION {(IF k = "apps" /\ IsDict(t.kids[k]) THEN DOMAIN t.kids[k].kids ELSE {})
                    \cup AllAppKeys(t.kids[k]) : k \in DOMAIN t.kids}

\* C19: for a manifest that loads, the result is the ascending list of the
\* integers of the digit-only keys of all its "apps" blocks, whatever their
\* depth, each once.
C19_AllAppsFound ==
    (parsed /\ manifest.exists /\ manifest.ok) =>
        app_ids = Sorted({IntOf(key) : key \in {k \in AllAppKeys(manifest.tree) : IsDigit(k)}})

-----------------------------------------------------------------------------
(* retry_with_backoff of lib/steam_api.py *)

MaxRetries == 3

\* backoff_factor ** n
RECURSIVE Power(_, _)
Power(b, n) == IF n = 0 THEN 1 ELSE b * Power(b, n - 1)

\* the ceiling of the wait after a rate limit error
RateLimitCeiling == 60

\* line 48: the wait after a request error
RequestWait(n) == Min({base_delay * Power(backoff_factor, n - 1), max_delay})

\* line 60: the wait after a rate limit error
RateLimitWait(n) == Min({RateLimitCeiling, base_delay * Power(backoff_factor, n)})

\* what session.get can meet: a response with a status code, a timeout or a
\* refused connection
Outcomes ==
    {[kind |-> "response", status_code |-> c] : c \in {200, 401, 404, 429, 500}}
        \cup {[kind |-> k, status_code |-> 0] : k \in {"timeout", "connection"}}

\* SteamAPI._make_request, lines 108-120: "returns", or the exception raised
\* (raise_for_status raises HTTPError for every status from 400 to 599)
_make_request(met) ==
    IF met.kind = "timeout" THEN "Timeout"
    ELSE IF met.kind = "connection" THEN "ConnectionError"
    ELSE IF met.status_code = 429 THEN "RateLimitError"
    ELSE IF met.status_code >= 400 /\ met.status_code < 600 THEN "HTTPError"
    ELSE "returns"

\* lines 40-41: the exceptions the first except clause catches; HTTPError,
\* Timeout and ConnectionError are all subclasses of requests.RequestException
IsRequestException(error) == error \in {"HTTPError", "Timeout", "ConnectionError"}

InitRetry ==
    /\ max_retries \in 0..MaxRetries
    /\ base_delay \in {1, 2, 20}
    /\ max_delay \in {5, 30}
    /\ backoff_factor \in {2, 3}
    /\ retries = 0
    /\ wait_time = 0
    /\ last_error = "none"
    /\ status = "calling"
    /\ reply = NoResponse
    /\ attempts = 0
    /\ MergeIdle
    /\ WriteIdle
    /\ ConfigIdle
    /\ BuildIdle
    /\ SchemaIdle
    /\ RerunIdle
    /\ CrashIdle
    /\ CacheIdle
    /\ ManifestIdle
    /\ SyncIdle
    /\ BatchIdle
    /\ ManagerIdle

\* line 39: the wrapped function returns
CallReturns(met) ==
    /\ status = "calling"
    /\ _make_request(met) = "returns"
    /\ status' = "returned"
    /\ reply' = met
    /\ attempts' = attempts + 1
    /\ UNCHANGED <<max_retries, base_delay, max_delay, backoff_factor,
                   retries, wait_time, last_error>>
    /\ UNCHANGED <<mergeVars, writeVars, configVars, buildVars, schemaVars, rerunVars,
                   crashVars, cacheVars, manifestVars, syncVars, batchVars, managerVars>>

\* a wrapper that gives up one failure later
CallRaisesOnceMore(met) ==
    /\ status = "calling"
    /\ _make_request(met) # "returns"
    /\ reply' = met
    /\ attempts' = attempts + 1
    /\ retries' = retries + 1
    /\ last_error' = _make_request(met)
    /\ IF retries > max_retries
       THEN /\ status' = "raised"
            /\ UNCHANGED wait_time
       ELSE /\ status' = "calling"
            /\ wait_time' = IF IsRequestException(_make_request(met))
                            THEN RequestWait(retries + 1)
                            ELSE RateLimitWait(retries + 1)
    /\ UNCHANGED <<max_retries, base_delay, max_delay, backoff_factor>>
    /\ UNCHANGED <<mergeVars, writeVars, configVars, buildVars, schemaVars, rerunVars,
                   crashVars, cacheVars, manifestVars, syncVars, batchVars, managerVars>>

\* lines 40-53 and 54-62: the wrapped function raises; the wrapper gives
\* up with APIError or sleeps and goes round the loop again
CallRaises(met) ==
    /\ status = "calling"
    /\ _make_request(met) # "returns"
    /\ reply' = met
    /\ attempts' = attempts + 1
    /\ retries' = retries + 1
    /\ last_error' = _make_request(met)
    /\ IF retries + 1 > max_retries
       THEN /\ status' = "raised"
            /\ UNCHANGED wait_time
       ELSE /\ status' = "calling"
            /\ wait_time' = IF IsRequestException(_make_request(met))
                            THEN RequestWait(retries + 1)
                            ELSE RateLimitWait(retries + 1)
    /\ UNCHANGED <<max_retries, base_delay, max_delay, backoff_factor>>
    /\ UNCHANGED <<mergeVars, writeVars, configVars, buildVars, schemaVars, rerunVars,
                   crashVars, cacheVars, manifestVars, syncVars, batchVars, managerVars>>

NextRetry ==
    \/ \E met \in Outcomes : CallReturns(met)
    \/ \E met \in Outcomes : CallRaises(met)

SpecRetry == InitRetry /\ [][NextRetry]_vars

\* the loop of the wrapper goes on as long as it can: a call of the wrapped
\* function ends (session.get has a timeout) and every sleep is finite
SpecRetryFair == SpecRetry /\ WF_vars(NextRetry)

\* C20: the wait slept before a retry never exceeds max_delay.
C20_WaitCapped == wait_time <= max_delay

\* an HTTP client error other than 429
Fatal(met) ==
    /\ met.kind = "response"
    /\ met.status_code >= 400
    /\ met.status_code < 500
    /\ met.status_code # 429

\* a timeout or a connection error
Transient(met) == met.kind \in {"timeout", "connection"}

\* C21: a call of the wrapped function that meets a client error other than
\* 429 ends the wrapper with an exception, with no retry and no sleep; one
\* that meets 429 gives up or sleeps the rate limit wait; one that meets a
\* timeout or a connection error gives up or sleeps the backoff wait.
C21_FailuresClassified ==
    [][(attempts' = attempts + 1) =>
          /\ Fatal(reply') => (status' = "raised" /\ wait_time' = wait_time)
          /\ (reply'.kind = "response" /\ reply'.status_code = 429) =>
                (status' = "raised" \/ wait_time' = RateLimitWait(retries'))
          /\ Transient(reply') =>
                (status' = "raised" \/ wait_time' = RequestWait(retries'))]_vars

\* the calls of the wrapped function made so far are within the limit, the
\* wrapper returns on the first call that succeeds and raises on the
\* (max_retries+1)-th failure
AttemptsBounded ==
    /\ attempts <= max_retries + 1
    /\ status = "calling" => (retries = attempts /\ retries <= max_retries)
    /\ status = "returned" =>
          (_make_request(reply) = "returns" /\ retries = attempts - 1)
    /\ status = "raised" =>
          (retries = attempts /\ attempts = max_retries + 1
             /\ _make_request(reply) # "returns")

\* C25: a call through the wrapper ends, after at most max_retries+1 calls of
\* the wrapped function (failures of both kinds counted together): it returns
\* on the first call that succeeds, or raises after the (max_retries+1)-th
\* failure.
C25_Terminates == []AttemptsBounded /\ <>(status # "calling")

C25_Witness ==
    /\ status = "raised"
    /\ max_retries = MaxRetries
    /\ attempts = max_retries + 1
    /\ last_error = "RateLimitError"
    /\ wait_time = RequestWait(retries - 1)

-----------------------------------------------------------------------------
(* sync_achievements of sync_goldberg_to_steam.py *)

\* str.upper and str.lower on the achievement names in use
Upper(name) ==
    IF name \in {"ach_a", "ACH_A", "Ach_a"} THEN "ACH_A"
    ELSE IF name \in {"ach_b", "ACH_B"} THEN "ACH_B"
    ELSE name

Lower(name) ==
    IF name \in {"ach_a", "ACH_A", "Ach_a"} THEN "ach_a"
    ELSE IF name \in {"ach_b", "ACH_B"} THEN "ach_b"
    ELSE name

\* lines 44-51: ConfigParser lower-cases the option names it reads; the
\* options of [Achievements] that are '1', upper-cased
GoldbergUnlocked(goldberg) ==
    IF ~goldberg.section THEN {}
    ELSE {Upper(Lower(ach_name)) : ach_name \in
            {n \in DOMAIN goldberg.options : goldberg.options[n] = "1"}}

\* a record that is synced whatever its unlock_time
IsToSyncAlways(ach_data, goldberg_unlocked) ==
    /\ IsDict(ach_data)
    /\ "name" \in DOMAIN ach_data.kids
    /\ Upper(ach_data.kids["name"].val) \in goldberg_unlocked

\* lines 83-84: the test a record of Stats passes to be synced
IsToSync(ach_data, goldberg_unlocked) ==
    /\ IsDict(ach_data)
    /\ "name" \in DOMAIN ach_data.kids
    /\ Upper(ach_data.kids["name"].val) \in goldberg_unlocked
    /\ ("unlock_time" \in DOMAIN ach_data.kids =>
           ach_data.kids["unlock_time"] = IntLeaf(0))

\* lines 82-87: the loop over the records of Stats
SyncStats(stats_data, goldberg_unlocked, now) ==
    Dict([key \in DOMAIN stats_data.kids |->
            IF IsToSync(stats_data.kids[key], goldberg_unlocked)
            THEN Dict(Put(stats_data.kids[key].kids, "unlock_time", IntLeaf(now)))
            ELSE stats_data.kids[key]])

\* achievements_updated
Updated(stats_data, goldberg_unlocked) ==
    Cardinality({key \in DOMAIN stats_data.kids :
                    IsToSync(stats_data.kids[key], goldberg_unlocked)})

\* lines 29-103: the stats file the call leaves, and whether it wrote it
sync_achievements(app_id, goldberg, steam_bin, now) ==
    LET same == [file |-> steam_bin, wrote |-> FALSE]
    IN  IF ~goldberg.exists THEN same
        ELSE IF GoldbergUnlocked(goldberg) = {} THEN same
        ELSE IF ~steam_bin.exists THEN same
        ELSE With(binary_load(steam_bin.bytes), LAMBDA loaded :
            IF ~loaded.ok THEN same
            ELSE IF app_id \notin DOMAIN loaded.tree.kids THEN same
            ELSE IF "Stats" \notin DOMAIN loaded.tree.kids[app_id].kids THEN same
            ELSE With(loaded.tree.kids[app_id].kids["Stats"], LAMBDA stats_data :
                IF Updated(stats_data, GoldbergUnlocked(goldberg)) = 0 THEN same
                ELSE [file |-> SchemaFileOf(Dict(Put(loaded.tree.kids, app_id,
                                 Dict(Put(loaded.tree.kids[app_id].kids, "Stats",
                                      SyncStats(stats_data, GoldbergUnlocked(goldberg), now)))))),
                      wrote |-> TRUE]))

\* the times a sync can run at
Times == {7, 9}

\* a record of Stats: a name or none, an unlock_time or none, and a field
\* the tool never looks at
AchRecord(name, time) ==
    Dict([k \in {"data"} \cup (IF name = "" THEN {} ELSE {"name"})
                         \cup (IF time < 0 THEN {} ELSE {"unlock_time"}) |->
            IF k = "name" THEN StrLeaf(name)
            ELSE IF k = "unlock_time" THEN IntLeaf(time)
            ELSE IntLeaf(1)])

FirstRecords ==
    {AchRecord(name, time) : name \in {"ACH_A", "ach_a", "ACH_B"}, time \in {-1, 0, 5}}
        \cup {AchRecord("", 0)}

SecondRecords == {AchRecord("ACH_B", 0), AchRecord("Ach_a", -1), AchRecord("ACH_A", 0)}

StatsBlocks ==
    {Dict("1" :> r) : r \in FirstRecords}
        \cup {Dict("1" :> r1 @@ "2" :> r2) : r1 \in FirstRecords, r2 \in SecondRecords}

\* the trees of the stats file: Stats under the app id beside a field of the
\* app and a block of the file that is not the app's, and trees without the
\* app id or without Stats
SteamTrees ==
    {Dict(AppId :> Dict("Stats" :> st @@ "crc" :> IntLeaf(3))
            @@ "cache" :> Dict("ver" :> StrLeaf("1"))) : st \in StatsBlocks}
        \cup {Dict("cache" :> Dict("ver" :> StrLeaf("1"))),
              Dict(AppId :> Dict("crc" :> IntLeaf(3)))}

GoldbergFiles ==
    {NoGoldbergFile, [exists |-> TRUE, section |-> FALSE, options |-> NoItems]}
        \cup {[exists |-> TRUE, section |-> TRUE, options |-> o] :
                 o \in UNION {[ks -> {"0", "1"}] : ks \in SUBSET {"ach_a", "ACH_B"}}}

InitSync ==
    /\ goldberg_ach_file \in GoldbergFiles
    /\ steam_bin_file \in {NoSchemaFile} \cup {SchemaFileOf(t) : t \in SteamTrees}
    /\ steam_bin_before = steam_bin_file
    /\ sync_time = 0
    /\ rewrote = FALSE
    /\ synced = 0
    /\ MergeIdle
    /\ WriteIdle
    /\ ConfigIdle
    /\ BuildIdle
    /\ SchemaIdle
    /\ RerunIdle
    /\ CrashIdle
    /\ CacheIdle
    /\ ManifestIdle
    /\ RetryIdle
    /\ BatchIdle
    /\ ManagerIdle

MaxSyncs == 2

\* one run of the tool for the app, at time now
SyncAchievements(now) ==
    /\ synced < MaxSyncs
    /\ now >= sync_time
    /\ \E r \in {sync_achievements(AppId, goldberg_ach_file, steam_bin_file, now)} :
          /\ steam_bin_file' = r.file
          /\ rewrote' = r.wrote
    /\ steam_bin_before' = steam_bin_file
    /\ sync_time' = now
    /\ synced' = synced + 1
    /\ UNCHANGED goldberg_ach_file
    /\ UNCHANGED <<mergeVars, writeVars, configVars, buildVars, schemaVars, rerunVars,
                   crashVars, cacheVars, manifestVars, retryVars, batchVars, managerVars>>

NextSync == \E now \in Times : SyncAchievements(now)

SpecSync == InitSync /\ [][NextSync]_vars

\* the tree of a stats file that loads and holds Stats for the app
HasStats(tree) ==
    /\ AppId \in DOMAIN tree.kids
    /\ "Stats" \in DOMAIN tree.kids[AppId].kids

StatsOf2(tree) == tree.kids[AppId].kids["Stats"].kids

\* the Goldberg file marks the record's name unlocked (names compare without
\* regard to case: ConfigParser does not keep the case of an option)
Marked(record) ==
    /\ "name" \in DOMAIN record.kids
    /\ goldberg_ach_file.section
    /\ \E n \in DOMAIN goldberg_ach_file.options :
          /\ goldberg_ach_file.options[n] = "1"
          /\ Lower(n) = Lower(record.kids["name"].val)

\* Steam's record shows the achievement locked
Locked(record) ==
    "unlock_time" \in DOMAIN record.kids => record.kids["unlock_time"].val = 0

\* what the last sync did to a stats file that held the tree old and now
\* holds the tree new
SyncedExactly(old, new) ==
    IF ~HasStats(old) THEN new = old /\ ~rewrote
    ELSE /\ HasStats(new)
         /\ DOMAIN StatsOf2(new) = DOMAIN StatsOf2(old)
         /\ \A key \in DOMAIN StatsOf2(old) :
               StatsOf2(new)[key] =
                  IF Marked(StatsOf2(old)[key]) /\ Locked(StatsOf2(old)[key])
                  THEN Dict(Put(StatsOf2(old)[key].kids, "unlock_time", IntLeaf(sync_time)))
                  ELSE StatsOf2(old)[key]
         /\ Dict(Put(new.kids, AppId,
                     Dict(Put(new.kids[AppId].kids, "Stats",
                              old.kids[AppId].kids["Stats"])))) = old
         /\ rewrote <=> \E key \in DOMAIN StatsOf2(old) :
                           Marked(StatsOf2(old)[key]) /\ Locked(StatsOf2(old)[key])

\* C22: a sync sets unlock_time, to the time of the sync, on exactly the
\* records whose name the Goldberg file marks unlocked and whose unlock_time
\* is 0 or absent; every other record and field of the stats file is as it
\* was, the file is written only when a record changed, and a second sync
\* with the same Goldberg file changes nothing.
C22_SyncSetsExactly ==
    /\ synced >= 1 =>
          /\ ~rewrote => steam_bin_file = steam_bin_before
          /\ steam_bin_file.exists = steam_bin_before.exists
          /\ steam_bin_before.exists =>
                With(binary_load(steam_bin_before.bytes).tree, LAMBDA old :
                  With(binary_load(steam_bin_file.bytes).tree, LAMBDA new :
                    SyncedExactly(old, new)))
    /\ synced = 2 => (~rewrote /\ steam_bin_file = steam_bin_before)

C22_Witness ==
    /\ synced = 2
    /\ steam_bin_file.exists
    /\ With(binary_load(steam_bin_file.bytes).tree, LAMBDA new :
          /\ HasStats(new)
          /\ DOMAIN StatsOf2(new) = {"1", "2"}
          /\ StatsOf2(new)["1"] = AchRecord("ach_a", 5)
          /\ StatsOf2(new)["2"] = AchRecord("ACH_B", 7)
          /\ sync_time = 9)

-----------------------------------------------------------------------------
(* More claims about write_section, checked under SpecWrite *)

\* what each rendered line holds after its indentation: "- value" for the
\* distinct elements of a list, "key: value" for the items of a mapping,
\* ascending
RenderedBodies(data) ==
    IF data.type = "list" THEN ItemBodies(data)
    ELSE LET ks == Sorted(DOMAIN data.items)
         IN [i \in 1..Len(ks) |-> Str(ks[i]) \o <<":", " ">> \o Str(data.items[ks[i]])]

\* the heading line (1-based) the call found in the file, 0 when none
FoundHeading ==
    IF HeadingLines(OldLines, section_key) = {} THEN 0
    ELSE Min(HeadingLines(OldLines, section_key))

\* C23: the call replaces exactly the lines after the heading whose leading
\* whitespace exceeds the heading's: afterwards the heading is followed by
\* the rendered lines and then by the old lines from the first one at or
\* below the heading's indent on.
C23_ExtentReplaced ==
    (wrote /\ FoundHeading > 0) =>
        LET old == OldLines
            new == NewLines
            h == FoundHeading
            e == SectionEnd(old, h)
            bodies == RenderedBodies(new_data)
        IN /\ Len(new) = h + Len(bodies) + (Len(old) - e + 1)
           /\ SubSeq(new, 1, h) = SubSeq(old, 1, h)
           /\ \A j \in 1..Len(bodies) : Strip(new[h + j]) = bodies[j]
           /\ SubSeq(new, h + Len(bodies) + 1, Len(new)) = SubSeq(old, e, Len(old))

\* new_data_lines of the last call
RenderedLines == FormatNewData(new_data, SectionLines(before, section_key).indent_level)

\* every rendered line is n spaces, its item and a newline
IndentedBy(n) ==
    /\ Len(RenderedLines) = Len(RenderedBodies(new_data))
    /\ \A j \in 1..Len(RenderedLines) :
          RenderedLines[j] = Spaces(n) \o RenderedBodies(new_data)[j] \o <<"\n">>

\* C24 as stated: for a heading found at column indent, every rendered line
\* starts with exactly 2*(indent+1) spaces followed by its item, one line per
\* distinct item in ascending order.
C24_IndentTwoPerLevel ==
    (wrote /\ FoundHeading > 0) =>
        IndentedBy(2 * (LeadingWhitespace(OldLines[FoundHeading]) + 1))

\* C24 amended: for a heading found at column indent, every rendered line
\* starts with exactly indent+2 spaces followed by its item, one line per
\* distinct item in ascending order.
C24_IndentPlusTwo ==
    (wrote /\ FoundHeading > 0) =>
        IndentedBy(LeadingWhitespace(OldLines[FoundHeading]) + 2)

\* a list of two items was written under a heading at column 2
C24_Witness ==
    /\ wrote
    /\ FoundHeading > 0
    /\ LeadingWhitespace(OldLines[FoundHeading]) = 2
    /\ Len(RenderedLines) = 2

-----------------------------------------------------------------------------
(* handle_slssteam_list and handle_steam_library: one batch mode for the   *)
(* run, get_game_schema app after app                                      *)

\* the responses of a batch run
BatchResponses ==
    {Game(TRUE, Records(ids)) : ids \in SmallLists} \cup {Game(FALSE, <<>>), NoGame, HttpError}

InitBatch ==
    /\ handler \in {"slssteam_list", "steam_library"}
    /\ run_mode \in BatchModes
    /\ schema_file \in {NoSchemaFile}
           \cup {[exists |-> TRUE, bytes |-> bytes] : bytes \in BuiltFiles \cup MalformedFiles}
    /\ stats_file \in BOOLEAN
    /\ summary = NewSummary
    /\ action = "none"
    /\ runs = 0
    /\ RerunIdle
    /\ CrashIdle
    /\ CacheIdle
    /\ ManifestIdle
    /\ RetryIdle
    /\ MergeIdle
    /\ WriteIdle
    /\ ConfigIdle
    /\ BuildIdle
    /\ SyncIdle
    /\ ManagerIdle

\* handle_slssteam_list, lines 262-271: the body of the loop for one app
HandleSlssteamList(response, worked, choice, template) ==
    /\ handler = "slssteam_list"
    /\ runs < MaxRuns
    /\ action # "raised"
    /\ runs' = runs + 1
    /\ IF run_mode = "generate_new" /\ schema_file.exists
       THEN /\ summary' = [summary EXCEPT !.skipped = @ + 1]
            /\ action' = "skip"
            /\ UNCHANGED <<schema_file, stats_file>>
       ELSE Call(response, worked,
                 IF run_mode # "generate_new" THEN run_mode ELSE "overwrite",
                 choice, template)
    /\ UNCHANGED <<handler, run_mode>>
    /\ UNCHANGED <<mergeVars, writeVars, configVars, buildVars, rerunVars, crashVars,
                   cacheVars, manifestVars, retryVars, syncVars, managerVars>>

\* handle_steam_library, lines 293-296: the body of the loop for one app
HandleSteamLibrary(response, worked, choice, template) ==
    /\ handler = "steam_library"
    /\ runs < MaxRuns
    /\ action # "raised"
    /\ runs' = runs + 1
    /\ Call(response, worked, run_mode, choice, template)
    /\ UNCHANGED <<handler, run_mode>>
    /\ UNCHANGED <<mergeVars, writeVars, configVars, buildVars, rerunVars, crashVars,
                   cacheVars, manifestVars, retryVars, syncVars, managerVars>>

NextBatch ==
    /\ runs < MaxRuns
    /\ \E existing \in {Existing} :
       \E response \in BatchResponses :
       \E worked \in {WorkedOf(response, existing)} :
       \E choice \in IF run_mode = "ask" /\ schema_file.exists THEN Choices ELSE {"3"} :
       \E template \in IF stats_file THEN {TRUE} ELSE BOOLEAN :
           \/ HandleSlssteamList(response, worked, choice, template)
           \/ HandleSteamLibrary(response, worked, choice, template)

SpecBatch == InitBatch /\ [][NextBatch]_vars

\* C26: in a run in mode generate_new, an app whose schema file exists when
\* it is reached keeps the file as it is and is counted as skipped; a schema
\* file is written only for an app that had none.
C26_GenerateNewKeepsFiles ==
    [][(run_mode = "generate_new" /\ runs' = runs + 1) =>
          /\ schema_file.exists =>
                (schema_file' = schema_file /\ summary'.skipped = summary.skipped + 1)
          /\ schema_file' # schema_file => ~schema_file.exists]_vars

\* the counters of the four outcomes
Outcomes4 == {"updated", "overwritten", "skipped", "errors"}

\* C27: every app processed adds one to exactly one of updated, overwritten,
\* skipped and errors, and total is updated + overwritten + skipped.
C27_CountersConsistent ==
    [][(runs' = runs + 1) =>
          /\ \E one \in Outcomes4 :
                /\ summary'[one] = summary[one] + 1
                /\ \A other \in Outcomes4 \ {one} : summary'[other] = summary[other]
          /\ summary'.total = summary'.updated + summary'.overwritten + summary'.skipped]_vars

\* the dict the cache file holds
SavedCache == IF cache_file.exists THEN json_load(cache_file.text).value ELSE NoItems

\* C30: when the session has ended, every entry that was put into the cache
\* during it is in the cache file, and the entries main read are in the
\* cache as they were read.
C30_AddedEntriesSaved ==
    /\ phase = "exit" =>
          \A app_id \in DOMAIN cache \ DOMAIN returned.value :
              app_id \in DOMAIN SavedCache /\ SavedCache[app_id] = cache[app_id]
    /\ returned.called =>
          \A app_id \in DOMAIN returned.value :
              app_id \in DOMAIN cache /\ cache[app_id] = returned.value[app_id]

-----------------------------------------------------------------------------
(* sls_manager.py: the commands that edit the config file.  A command is   *)
(* followed from the point where the user has confirmed it.                *)

MaxCommands == 2

\* write_yaml_section(section_key, new_data), lines 51-97: the file it
\* leaves and what it returns; any exception (the file cannot be opened for
\* writing) is caught and makes it return False
write_yaml_section(f, key, data, writable) ==
    IF writable THEN [file |-> write_section(f, key, data), ok |-> TRUE]
    ELSE [file |-> f, ok |-> FALSE]

\* backup_config(), lines 101-111
backup_config(f, copied) == ~f.exists \/ copied

\* the files the commands start from
ManagerFiles ==
    {NoFile} \cup {FileOf(ConfigText(FALSE, TRUE, a, TRUE, m)) : a \in SUBSET AppIds, m \in FakeMaps}
            \cup {FileOf(ConfigText(TRUE, TRUE, a, FALSE, NoItems)) : a \in SUBSET AppIds}

InitManager ==
    /\ file \in ManagerFiles
    /\ before = file
    /\ section_key = <<>>
    /\ new_data = ListValue(<<>>)
    /\ wrote = FALSE
    /\ ManagerIdle
    /\ MergeIdle
    /\ ConfigIdle
    /\ BuildIdle
    /\ SchemaIdle
    /\ RerunIdle
    /\ CrashIdle
    /\ CacheIdle
    /\ ManifestIdle
    /\ RetryIdle
    /\ SyncIdle
    /\ BatchIdle

\* the ids a command works on, given what it reads from the file: lines
\* 155-160 (add), 239-291 (remove), 389-394 (add override), 415-429 (remove
\* override)
Workable(cmd, ids, listed, overrides) ==
    IF cmd = "add_game" THEN ids \ listed # {}
    ELSE IF cmd = "remove_game" THEN ids # {} /\ ids \subseteq listed
    ELSE IF cmd = "add_override" THEN Cardinality(ids) = 1
    ELSE Cardinality(ids) = 1 /\ ids \subseteq DOMAIN overrides

\* the user picks a command and its app ids and confirms
Begin(cmd, ids) ==
    /\ command = "menu"
    /\ commands_run < MaxCommands
    /\ \E listed \in {SetOf(get_additional_apps(file))} :
       \E overrides \in {get_fake_app_ids(file).items} :
          /\ Workable(cmd, ids, listed, overrides)
          /\ current_app_ids' = listed
          /\ chosen_ids' = IF cmd = "add_game" THEN ids \ listed ELSE ids
    /\ command' = cmd
    /\ step' = "backup"
    /\ backed_up' = "none"
    /\ config_writes' = 0
    /\ to_ask' = {}
    /\ reported' = "none"
    /\ commands_run' = commands_run + 1
    /\ UNCHANGED <<mergeVars, writeVars, configVars, buildVars, schemaVars, rerunVars,
                   crashVars, cacheVars, manifestVars, retryVars, syncVars, batchVars>>

\* a command that goes on to its writes after a failed backup
BackupConfigIgnored(copied) ==
    /\ step = "backup"
    /\ backed_up' = IF backup_config(file, copied) THEN "yes" ELSE "no"
    /\ step' = IF command = "add_game" THEN "apps" ELSE "fakes"
    /\ UNCHANGED <<command, config_writes, chosen_ids, current_app_ids, to_ask,
                   reported, commands_run>>
    /\ UNCHANGED <<mergeVars, writeVars, configVars, buildVars, schemaVars, rerunVars,
                   crashVars, cacheVars, manifestVars, retryVars, syncVars, batchVars>>

\* lines 172, 303, 404, 431: if not backup_config(): leave the command
BackupConfig(copied) ==
    /\ step = "backup"
    /\ backed_up' = IF backup_config(file, copied) THEN "yes" ELSE "no"
    /\ step' = IF ~backup_config(file, copied) THEN "done"
               ELSE IF command = "add_game" THEN "apps"
               ELSE "fakes"
    /\ UNCHANGED <<command, config_writes, chosen_ids, current_app_ids, to_ask,
                   reported, commands_run>>
    /\ UNCHANGED <<mergeVars, writeVars, configVars, buildVars, schemaVars, rerunVars,
                   crashVars, cacheVars, manifestVars, retryVars, syncVars, batchVars>>

\* the mapping a command writes to FakeAppIds: lines 194-195 (add, for the
\* app asked about), 308-312 (remove), 405-406 (add override), 432 (remove
\* override)
NewOverrides(cmd, overrides, ids) ==
    IF cmd \in {"add_game", "add_override"}
    THEN [k \in DOMAIN overrides \cup ids |-> IF k \in ids THEN 480 ELSE overrides[k]]
    ELSE [k \in DOMAIN overrides \ ids |-> overrides[k]]

\* the step of a command at FakeAppIds: the question is answered with yes
\* or no, and on yes the section is written
WriteFakeAppIds(app_id, yes, writable) ==
    /\ step = "fakes"
    /\ app_id \in IF command = "add_game" THEN to_ask ELSE chosen_ids
    /\ \E overrides \in {get_fake_app_ids(file).items} :
       \E ids \in {IF command = "add_game" THEN {app_id} ELSE chosen_ids} :
       \E asked \in {command # "remove_game" \/ ids \cap DOMAIN overrides # {}} :
       \E r \in {write_yaml_section(file, FakeAppIds,
                      DictValue(NewOverrides(command, overrides, ids)), writable)} :
          /\ file' = IF asked /\ yes THEN r.file ELSE file
          /\ config_writes' = IF asked /\ yes THEN config_writes + 1 ELSE config_writes
          /\ reported' = IF command \in {"add_override", "remove_override"} /\ yes
                         THEN (IF r.ok THEN "success" ELSE "none")
                         ELSE reported
    /\ to_ask' = to_ask \ {app_id}
    /\ step' = IF command = "remove_game" THEN "apps"
               ELSE IF command = "add_game" /\ to_ask \ {app_id} # {} THEN "fakes"
               ELSE "done"
    /\ UNCHANGED <<command, backed_up, chosen_ids, current_app_ids, commands_run>>
    /\ UNCHANGED <<before, section_key, new_data, wrote>>
    /\ UNCHANGED <<mergeVars, configVars, buildVars, schemaVars, rerunVars,
                   crashVars, cacheVars, manifestVars, retryVars, syncVars, batchVars>>

\* what the command prints after it wrote AdditionalApps: lines 175-200
\* (add) look at what write_yaml_section returned, lines 328-329 (remove)
\* do not
Reported(cmd, ok) ==
    IF cmd = "remove_game" THEN "success"
    ELSE IF ok THEN "success" ELSE "failure"

\* the step of a command at AdditionalApps: lines 174-175 (add), 327-328
\* (remove)
WriteAdditionalApps(writable) ==
    /\ step = "apps"
    /\ \E final \in {IF command = "add_game" THEN current_app_ids \cup chosen_ids
                      ELSE current_app_ids \ chosen_ids} :
       \E r \in {write_yaml_section(file, AdditionalApps,
                                     ListValue(SetToSeq(final)), writable)} :
          /\ file' = r.file
          /\ reported' = Reported(command, r.ok)
          /\ step' = IF command = "add_game" /\ r.ok THEN "fakes" ELSE "done"
          /\ to_ask' = IF command = "add_game" /\ r.ok THEN chosen_ids ELSE {}
    /\ config_writes' = config_writes + 1
    /\ UNCHANGED <<command, backed_up, chosen_ids, current_app_ids, commands_run>>
    /\ UNCHANGED <<before, section_key, new_data, wrote>>
    /\ UNCHANGED <<mergeVars, configVars, buildVars, schemaVars, rerunVars,
                   crashVars, cacheVars, manifestVars, retryVars, syncVars, batchVars>>

\* the command is over
Return ==
    /\ step = "done"
    /\ command' = "menu"
    /\ step' = "none"
    /\ UNCHANGED <<backed_up, config_writes, chosen_ids, current_app_ids, to_ask,
                   reported, commands_run>>
    /\ UNCHANGED <<mergeVars, writeVars, configVars, buildVars, schemaVars, rerunVars,
                   crashVars, cacheVars, manifestVars, retryVars, syncVars, batchVars>>

NextManager ==
    \/ \E cmd \in {"add_game", "remove_game", "add_override", "remove_override"},
          ids \in SUBSET AppIds : Begin(cmd, ids)
    \/ \E copied \in BOOLEAN : BackupConfig(copied)
    \/ \E app_id \in AppIds, yes, writable \in BOOLEAN : WriteFakeAppIds(app_id, yes, writable)
    \/ \E writable \in BOOLEAN : WriteAdditionalApps(writable)
    \/ Return

SpecManager == InitManager /\ [][NextManager]_vars

\* C28: a command writes to the config file only after backup_config has
\* returned True in that command; after a failed backup the command writes
\* nothing.
C28_NoWriteWithoutBackup ==
    [][/\ config_writes' > config_writes => backed_up = "yes"
       /\ (backed_up = "no" /\ commands_run' = commands_run) => file' = file]_vars

C28_Witness ==
    /\ command = "remove_game"
    /\ backed_up = "yes"
    /\ config_writes = 2
    /\ file # before

\* C29: when handle_remove_game has reported the removal as successful, the
\* AdditionalApps section on disk holds none of the removed ids and all the
\* other ids it held.
C29_RemovalReportedIsDone ==
    (command = "remove_game" /\ reported = "success") =>
        With(get_additional_apps(file), LAMBDA listed :
            /\ Iterable(listed)
            /\ SetOf(listed) \cap chosen_ids = {}
            /\ current_app_ids \ chosen_ids \subseteq SetOf(listed))

====
